---------------------------- MODULE Spec2Model ----------------------------
(***************************************************************************)
(* Model of the AudioEngine of src/services/audioEngine.ts: the lookahead  *)
(* step scheduler, the step dispatcher, the voice builders, the real-time  *)
(* modifier surface and the gesture-effect automation.                     *)
(*                                                                         *)
(* Time is an integer number of half-milliseconds ("ticks"), so that the   *)
(* step durations of the tempi used here (62.5ms, 125ms, 250ms, ...) are   *)
(* whole numbers.  The tempo modifier is an integer number of hundredths   *)
(* (1.0 is 100).  Gains are in thousandths, frequencies in Hz.             *)
(***************************************************************************)
EXTENDS Integers, Sequences, FiniteSets, TLC

\* ------------------------------------------------------------------ units

\* n milliseconds, in ticks
Ms(n) == 2 * n

Min(a, b) == IF a < b THEN a ELSE b

Max(a, b) == IF a > b THEN a ELSE b

\* ------------------------------------------------------------------ bounds

\* the device clock runs from 0 to MaxClock poll intervals
MaxClock == 6

\* at most this many scheduler polls are pending at once
MaxPolls == 2

\* at most this many control calls are made in one behaviour
MaxCalls == 5

\* the device clock of a pass over the pattern runs to PassClock poll intervals
PassClock == 80

\* the device clock of a session with live flag changes runs to LiveClock poll
\* intervals
LiveClock == 8

\* at most this many flag changes and sample loads are made in such a session
LiveCalls == 3

\* the device clock of a session with a step observer runs to ObserverClock poll
\* intervals
ObserverClock == 14

\* the device clock of a camera session runs to FaceClock poll intervals
FaceClock == 3

\* at most this many face frames are analysed in such a session
MaxFrames == 4

\* the device clock of a gesture session runs to FxClock steps of 50ms
FxClock == 8

\* at most this many gesture effects are triggered in such a session
MaxTriggers == 2

\* ------------------------------------------------------------------ program constants

\* const lookahead = 25.0 (ms): the poll cadence
lookahead == Ms(25)

\* const scheduleAheadTime = 0.1 (s): the lookahead window
scheduleAheadTime == Ms(100)

\* play(): nextNoteTime = currentTime + 0.1
playOffset == Ms(100)

\* setTempoModifier: Math.max(0.5, ...)
TempoMin == 50

\* setTempoModifier: Math.min(2.0, ...)
TempoMax == 200

\* nextStep: (currentStep + 1) % 16
NumSteps == 16

\* ------------------------------------------------------------------ note table

\* NOTE_FREQS, in hundredths of a Hz
NOTE_FREQS ==
  [n \in {"C1", "C#1", "D1", "D#1", "E1", "F1", "F#1", "G1", "G#1", "A1", "A#1", "B1",
          "C2", "C#2", "D2", "D#2", "E2", "F2", "F#2", "G2", "G#2", "A2", "A#2", "B2",
          "C3", "C#3", "D3", "D#3", "E3", "F3", "F#3", "G3", "G#3", "A3", "A#3", "B3",
          "C4", "C#4", "D4", "D#4", "E4", "F4", "F#4", "G4", "G#4", "A4", "A#4", "B4",
          "C5", "C#5", "D5", "D#5", "E5", "F5", "F#5", "G5", "G#5", "A5", "A#5", "B5"} |->
     CASE n = "C1" -> 3270 [] n = "C#1" -> 3465 [] n = "D1" -> 3671 [] n = "D#1" -> 3889
       [] n = "E1" -> 4120 [] n = "F1" -> 4365 [] n = "F#1" -> 4625 [] n = "G1" -> 4900
       [] n = "G#1" -> 5191 [] n = "A1" -> 5500 [] n = "A#1" -> 5827 [] n = "B1" -> 6174
       [] n = "C2" -> 6541 [] n = "C#2" -> 6930 [] n = "D2" -> 7342 [] n = "D#2" -> 7778
       [] n = "E2" -> 8241 [] n = "F2" -> 8731 [] n = "F#2" -> 9250 [] n = "G2" -> 9800
       [] n = "G#2" -> 10383 [] n = "A2" -> 11000 [] n = "A#2" -> 11654 [] n = "B2" -> 12347
       [] n = "C3" -> 13081 [] n = "C#3" -> 13859 [] n = "D3" -> 14683 [] n = "D#3" -> 15556
       [] n = "E3" -> 16481 [] n = "F3" -> 17461 [] n = "F#3" -> 18500 [] n = "G3" -> 19600
       [] n = "G#3" -> 20765 [] n = "A3" -> 22000 [] n = "A#3" -> 23308 [] n = "B3" -> 24694
       [] n = "C4" -> 26163 [] n = "C#4" -> 27718 [] n = "D4" -> 29366 [] n = "D#4" -> 31113
       [] n = "E4" -> 32963 [] n = "F4" -> 34923 [] n = "F#4" -> 36999 [] n = "G4" -> 39200
       [] n = "G#4" -> 41530 [] n = "A4" -> 44000 [] n = "A#4" -> 46616 [] n = "B4" -> 49388
       [] n = "C5" -> 52325 [] n = "C#5" -> 55437 [] n = "D5" -> 58733 [] n = "D#5" -> 62225
       [] n = "E5" -> 65925 [] n = "F5" -> 69846 [] n = "F#5" -> 73999 [] n = "G5" -> 78399
       [] n = "G#5" -> 83061 [] n = "A5" -> 88000 [] n = "A#5" -> 93233 [] n = "B5" -> 98777]

\* the names NOTE_FREQS, an object literal, inherits from Object.prototype: indexing
\* it with one of them yields a function or an object, which is truthy and is not a
\* number
ProtoKeys == {"constructor", "toString", "toLocaleString", "valueOf", "hasOwnProperty",
              "isPrototypeOf", "propertyIsEnumerable", "__proto__"}

\* ------------------------------------------------------------------ track documents

\* a silent slot of a note sequence (null in the source; falsy like "")
NoNote == ""

F == FALSE

T == TRUE

\* the sequences of a TrackData document
SeqNames == {"kick", "hat", "bass", "lead", "sfx", "custom"}

\* TrackData documents the engine is loaded with (bpm, soundEffect, sequences,
\* synthSettings.waveform); sequence slot s of the source is element s+1 here, and
\* present names the sequences the document has (an absent one reads undefined).
\* Documents 1 to 3 are well formed; 4 lacks hat, 5 has a short lead and lacks the
\* two optional sequences, 6 lacks bass and has a short kick; 7 has a bass slot
\* that names a member of Object.prototype; 8 and 9 have a bpm of 0 and below 0
Tracks ==
  << [bpm |-> 120, soundEffect |-> "cat",
      kick   |-> <<T,F,F,F, T,F,F,F, T,F,F,F, T,F,F,F>>,
      hat    |-> <<F,F,T,F, F,F,T,F, F,F,T,F, F,F,T,F>>,
      bass   |-> <<"C2","C2",NoNote,"E2", "H9","G2",NoNote,NoNote,
                   "C2",NoNote,NoNote,"E2", NoNote,"G2",NoNote,NoNote>>,
      lead   |-> <<NoNote,"C4",NoNote,NoNote, "E4",NoNote,NoNote,NoNote,
                   NoNote,"G4",NoNote,NoNote, "E4",NoNote,NoNote,NoNote>>,
      sfx    |-> <<F,F,F,T, F,F,F,F, F,F,F,F, F,F,F,F>>,
      custom |-> <<T,T,F,T, F,F,T,F, T,F,F,F, F,F,T,F>>,
      waveform |-> "sawtooth", present |-> SeqNames],
     [bpm |-> 150, soundEffect |-> "none",
      kick   |-> <<F,T,T,F, F,F,T,F, T,T,F,F, T,F,F,T>>,
      hat    |-> <<T,T,T,T, T,T,T,T, T,T,T,T, T,T,T,T>>,
      bass   |-> <<NoNote,"A1",NoNote,NoNote, "A1",NoNote,NoNote,NoNote,
                   NoNote,"A1",NoNote,NoNote, "A1",NoNote,NoNote,NoNote>>,
      lead   |-> <<"A4",NoNote,NoNote,NoNote, NoNote,NoNote,NoNote,NoNote,
                   "A4",NoNote,NoNote,NoNote, NoNote,NoNote,NoNote,NoNote>>,
      sfx    |-> <<T,F,F,F, F,F,F,F, T,F,F,F, F,F,F,F>>,
      custom |-> <<F,T,F,F, F,T,F,F, F,T,F,F, F,T,F,F>>,
      waveform |-> "sine", present |-> SeqNames],
     [bpm |-> 120, soundEffect |-> "dog",
      kick   |-> <<T,F,F,F, T,F,F,F, T,F,F,F, T,F,F,F>>,
      hat    |-> <<F,F,T,F, F,F,T,F, F,F,T,F, F,F,T,F>>,
      bass   |-> <<"C2",NoNote,NoNote,NoNote, NoNote,NoNote,NoNote,NoNote,
                   "C2",NoNote,NoNote,NoNote, NoNote,NoNote,NoNote,NoNote>>,
      lead   |-> <<NoNote,NoNote,NoNote,NoNote, "E4",NoNote,NoNote,NoNote,
                   NoNote,NoNote,NoNote,NoNote, "E4",NoNote,NoNote,NoNote>>,
      sfx    |-> <<T,F,F,F, F,F,F,F, F,F,F,F, F,F,F,F>>,
      custom |-> <<F,F,F,F, F,F,F,F, F,F,F,F, F,F,F,F>>,
      waveform |-> "square", present |-> SeqNames],
     [bpm |-> 120, soundEffect |-> "cat",
      kick   |-> <<T,F,F,F, T,F,F,F, T,F,F,F, T,F,F,F>>,
      hat    |-> << >>,
      bass   |-> <<"C2","C2",NoNote,"E2", NoNote,"G2",NoNote,NoNote,
                   "C2",NoNote,NoNote,"E2", NoNote,"G2",NoNote,NoNote>>,
      lead   |-> <<"C4","C4",NoNote,NoNote, "E4",NoNote,NoNote,NoNote,
                   NoNote,"G4",NoNote,NoNote, "E4",NoNote,NoNote,NoNote>>,
      sfx    |-> <<T,F,F,T, F,F,F,F, F,F,F,F, F,F,F,F>>,
      custom |-> <<T,T,F,T, F,F,T,F, T,F,F,F, F,F,T,F>>,
      waveform |-> "sawtooth", present |-> SeqNames \ {"hat"}],
     [bpm |-> 120, soundEffect |-> "cat",
      kick   |-> <<T,T,T,T, T,T,T,T, T,T,T,T, T,T,T,T>>,
      hat    |-> <<T,T,T,T, T,T,T,T, T,T,T,T, T,T,T,T>>,
      bass   |-> <<"C2","C2","C2","C2", "C2","C2","C2","C2",
                   "C2","C2","C2","C2", "C2","C2","C2","C2">>,
      lead   |-> <<"C4","C4">>,
      sfx    |-> << >>,
      custom |-> << >>,
      waveform |-> "sawtooth", present |-> SeqNames \ {"sfx", "custom"}],
     [bpm |-> 120, soundEffect |-> "cat",
      kick   |-> <<T,T>>,
      hat    |-> <<T,T,T,T, T,T,T,T, T,T,T,T, T,T,T,T>>,
      bass   |-> << >>,
      lead   |-> <<"C4","C4","C4","C4", "C4","C4","C4","C4",
                   "C4","C4","C4","C4", "C4","C4","C4","C4">>,
      sfx    |-> <<T,T,T,T, T,T,T,T, T,T,T,T, T,T,T,T>>,
      custom |-> <<T,T,T,T, T,T,T,T, T,T,T,T, T,T,T,T>>,
      waveform |-> "sawtooth", present |-> SeqNames \ {"bass"}],
     [bpm |-> 120, soundEffect |-> "bird",
      kick   |-> <<T,F,F,F, T,F,F,F, T,F,F,F, T,F,F,F>>,
      hat    |-> <<F,F,T,F, F,F,T,F, F,F,T,F, F,F,T,F>>,
      bass   |-> <<"C2","Bb2","constructor","E2", NoNote,"G2",NoNote,NoNote,
                   "C2",NoNote,NoNote,"E2", NoNote,"G2",NoNote,NoNote>>,
      lead   |-> <<NoNote,"C4",NoNote,NoNote, "E4",NoNote,NoNote,NoNote,
                   NoNote,"G4",NoNote,NoNote, "E4",NoNote,NoNote,NoNote>>,
      sfx    |-> <<F,T,F,T, F,F,F,F, F,F,F,F, F,F,F,F>>,
      custom |-> <<T,T,F,T, F,F,T,F, T,F,F,F, F,F,T,F>>,
      waveform |-> "sawtooth", present |-> SeqNames],
     [bpm |-> 0, soundEffect |-> "none",
      kick   |-> <<T,F,F,F, T,F,F,F, T,F,F,F, T,F,F,F>>,
      hat    |-> <<F,F,T,F, F,F,T,F, F,F,T,F, F,F,T,F>>,
      bass   |-> <<"C2",NoNote,NoNote,NoNote, NoNote,NoNote,NoNote,NoNote,
                   "C2",NoNote,NoNote,NoNote, NoNote,NoNote,NoNote,NoNote>>,
      lead   |-> <<NoNote,NoNote,NoNote,NoNote, "E4",NoNote,NoNote,NoNote,
                   NoNote,NoNote,NoNote,NoNote, "E4",NoNote,NoNote,NoNote>>,
      sfx    |-> <<F,F,F,F, F,F,F,F, F,F,F,F, F,F,F,F>>,
      custom |-> <<F,F,F,F, F,F,F,F, F,F,F,F, F,F,F,F>>,
      waveform |-> "sawtooth", present |-> SeqNames],
     [bpm |-> -120, soundEffect |-> "none",
      kick   |-> <<T,F,F,F, T,F,F,F, T,F,F,F, T,F,F,F>>,
      hat    |-> <<F,F,T,F, F,F,T,F, F,F,T,F, F,F,T,F>>,
      bass   |-> <<"C2",NoNote,NoNote,NoNote, NoNote,NoNote,NoNote,NoNote,
                   "C2",NoNote,NoNote,NoNote, NoNote,NoNote,NoNote,NoNote>>,
      lead   |-> <<NoNote,NoNote,NoNote,NoNote, "E4",NoNote,NoNote,NoNote,
                   NoNote,NoNote,NoNote,NoNote, "E4",NoNote,NoNote,NoNote>>,
      sfx    |-> <<F,F,F,F, F,F,F,F, F,F,F,F, F,F,F,F>>,
      custom |-> <<F,F,F,F, F,F,F,F, F,F,F,F, F,F,F,F>>,
      waveform |-> "sawtooth", present |-> SeqNames] >>

\* trackData = null
NoTrack == 0

\* the documents the sessions below load with loadTrack
TrackIds == {1, 2}

\* the slot read as it would be with the index off by one
Slot_OffByOne(seq, step, falsy) ==
  IF step >= 1 /\ step <= Len(seq) THEN seq[step] ELSE falsy

\* sequences.x[step]: a slot past the end of the array reads undefined (falsy)
Slot(seq, step, falsy) == IF step + 1 <= Len(seq) THEN seq[step + 1] ELSE falsy

\* ------------------------------------------------------------------ state

VARIABLES
  ctx,                  \* the AudioContext exists (init() has built the graph)
  graph,                \* connections leaving the shared nodes: pairs <<from, to>>
  now,                  \* ctx.currentTime, the device clock, in ticks
  nextNoteTime,         \* absolute time of the next due step
  currentStep,          \* 0..15
  timerID,              \* handle of the last armed poll, 0 when undefined
  isPlaying,
  trackData,            \* NoTrack or an index into Tracks
  customBuffer,         \* 0 when null, else the number of the decoded sample
  isCustomMuted,
  tempoModifier,        \* hundredths
  bassDistortionActive,
  onStep,               \* an observer is registered
  polls,                \* pending scheduler timeouts: records [id, due]
  stepTimers,           \* pending observer timeouts: sequence of [due, step, time]
  voices,               \* every voice enqueued so far, in order
  dispatched,           \* every scheduleStep call so far, with the flags it read:
                        \* [step, time, track, buffer, muted, dist, decode, lo, hi]
  params,               \* automation of the four gesture-steered AudioParams
  notified,             \* observer timeouts run so far, in order: [step, time, at,
                        \* null]; at is the device time of the run, null says that
                        \* onStep was null when it ran
  calls,                \* number of control calls made
  decoding,             \* decodeAudioData promises not yet settled
  suspended,            \* ctx.state === 'suspended'
  resuming,             \* init() calls awaiting ctx.resume()
  created,              \* shared nodes created so far
  lastDecode,           \* outcome of the decode settled last: "none", "ok", "failed"
  raised,               \* an exception has left scheduler() uncaught
  hung,                 \* the control thread is in a drain loop that never ends
  response,             \* sequence lengths of the document the service produced
  result,               \* what analyzeImage returned for it
  volume,               \* target of the last master-gain ramp (thousandths), 0: none
  recording,            \* a MediaRecorder has been started on the recording tap
  wasBlinking,          \* the camera overlay's ref: the last frame analysed was a blink
  frames,               \* the eye-blink scores of the frames analysed so far, in
                        \* order: [left, right] in hundredths
  session,              \* LiveSessionService.session is not null
  isConnected,          \* LiveSessionService.isConnected
  connecting,           \* connect() calls awaiting ai.live.connect
  sockets,              \* connections to the live service that are open
  received,             \* the messages delivered to onmessage: [calls, session],
                        \* session saying whether a session existed then
  effects,              \* the arguments onEffectCallback was called with, in order
  responses,            \* the number of tool responses sent
  liveRaised,           \* handleMessage has thrown a TypeError
  lastOp                \* the last control call and the state it found:
                        \* [name, arg, nnt, ndisp, playing]

engine == <<ctx, graph, nextNoteTime, currentStep, timerID, isPlaying, trackData,
            customBuffer, isCustomMuted, tempoModifier, bassDistortionActive, onStep>>

\* the device context beside its clock
device == <<suspended, resuming, created>>

\* the generative analysis
service == <<response, result>>

\* the camera overlay
overlay == <<wasBlinking, frames>>

\* the live gesture session
live == <<session, isConnected, connecting, sockets, received, effects, responses,
          liveRaised>>

\* the master level and the recorder
output == <<volume, recording>>

platform == <<now, polls, stepTimers, voices, dispatched, params, notified, decoding,
              device, hung, lastDecode, raised, service, overlay, live, output>>

vars == <<engine, platform, calls, lastOp>>

\* ------------------------------------------------------------------ graph

\* init(): the routing of the shared nodes
InitGraph ==
  { <<"delayNode", "delayFeedback">>, <<"delayFeedback", "delayNode">>,
    <<"masterGain", "masterFilter">>, <<"masterFilter", "compressor">>,
    <<"masterFilter", "reverbSend">>, <<"reverbSend", "reverbNode">>,
    <<"reverbNode", "compressor">>,
    <<"masterFilter", "delaySend">>, <<"delaySend", "delayNode">>,
    <<"delayNode", "compressor">>,
    <<"masterFilter", "distortionSend">>, <<"distortionSend", "distortionNode">>,
    <<"distortionNode", "compressor">>,
    <<"compressor", "analyser">>, <<"analyser", "destination">>,
    <<"compressor", "dest">> }

\* the nodes init() creates and keeps in fields
SharedNodes ==
  { "masterGain", "masterFilter", "compressor", "analyser", "dest",
    "reverbNode", "reverbSend", "delayNode", "delayFeedback", "delaySend",
    "distortionNode", "distortionSend" }

\* ------------------------------------------------------------------ voices

\* a voice: its start time, its pitch (hundredths of a Hz, 0 when unpitched), the
\* sample it plays (0 when none) and the connections it makes
Voice(kind, time, freq, edges) ==
  [kind |-> kind, time |-> time, freq |-> freq, buffer |-> 0, edges |-> edges]

triggerKick(time) ==
  Voice("kick", time, 0, { <<"osc", "gain">>, <<"gain", "masterGain">> })

triggerHat(time) ==
  Voice("hat", time, 0,
        { <<"noise", "filter">>, <<"filter", "gain">>, <<"gain", "masterGain">> })

\* the distorted chain of triggerBass (bassDistortionActive)
BassDistorted(time, freq, hasDistortionNode) ==
  Voice("bass", time, freq,
        { <<"osc", "filter">>, <<"filter", "distGain">>, <<"outGain", "masterGain">> }
        \cup (IF hasDistortionNode
                THEN { <<"distGain", "distortionNode">>, <<"distortionNode", "outGain">> }
                ELSE { <<"distGain", "outGain">> }))

\* the normal chain of triggerBass
BassNormal(time, freq) ==
  Voice("bass", time, freq,
        { <<"osc", "filter">>, <<"filter", "gain">>, <<"gain", "masterGain">> })

\* triggerBass as it would be with the test of the flag inverted
triggerBass_Inverted(time, freq, distortion, hasDistortionNode) ==
  IF ~distortion THEN BassDistorted(time, freq, hasDistortionNode)
                 ELSE BassNormal(time, freq)

triggerBass(time, freq, distortion, hasDistortionNode) ==
  IF distortion THEN BassDistorted(time, freq, hasDistortionNode)
                ELSE BassNormal(time, freq)

triggerLead(time, freq, waveform) ==
  Voice("lead", time, freq,
        { <<"osc1", "filter">>, <<"filter", "gain">>, <<"gain", "masterGain">>,
          <<"gain", "delay">>, <<"delay", "delayGain">>, <<"delayGain", "masterGain">>,
          <<"delay", "feedback">>, <<"feedback", "delay">> }
        \cup (IF waveform \in {"sine", "triangle"}
                THEN { <<"fmOsc", "fmGain">>, <<"fmGain", "osc1.frequency">> }
                ELSE {}))

triggerCustomSample(time, buffer) ==
  [Voice("custom", time, 0, { <<"source", "gain">>, <<"gain", "masterGain">> })
     EXCEPT !.buffer = buffer]

OscFilterGain == { <<"osc", "filter">>, <<"filter", "gain">>, <<"gain", "masterGain">> }

NoiseFilterGain == { <<"noise", "filter">>, <<"filter", "gain">>, <<"gain", "masterGain">> }

BarkOne(t) ==
  Voice("sfx", t, 0,
        { <<"osc", "gain">>, <<"noise", "noiseFilter">>, <<"noiseFilter", "gain">>,
          <<"gain", "masterGain">> })

\* triggerSFX: the voices of one ambience one-shot; an unknown tag builds nothing
triggerSFX(time, type) ==
  CASE type = "cat" -> << Voice("sfx", time, 0, OscFilterGain) >>
    [] type = "dog" -> << BarkOne(time), BarkOne(time + Ms(180)) >>
    [] type = "bird" ->
         << Voice("sfx", time, 0, { <<"osc", "gain">>, <<"gain", "masterGain">> }) >>
    [] type \in {"thunder", "water", "wind"} -> << Voice("sfx", time, 0, NoiseFilterGain) >>
    [] type = "traffic" -> << Voice("sfx", time, 0, OscFilterGain) >>
    [] type = "machinery" ->
         << Voice("sfx", time, 0,
                  { <<"fm", "fmGain">>, <<"fmGain", "osc.frequency">>,
                    <<"osc", "gain">>, <<"gain", "masterGain">> }) >>
    [] type = "people" ->
         << Voice("sfx", time, 0,
                  { <<"lfo", "lfoGain">>, <<"lfoGain", "filter1.frequency">>,
                    <<"lfoGain", "filter2.frequency">>,
                    <<"noise", "filter1">>, <<"noise", "filter2">>,
                    <<"filter1", "noiseGain">>, <<"filter2", "noiseGain">>,
                    <<"noiseGain", "masterGain">> }) >>
    [] OTHER -> << >>

\* the connections a voice makes out of a shared node
SharedEdges(v) == { e \in v.edges : e[1] \in SharedNodes }

RECURSIVE SharedEdgesOf(_)
SharedEdgesOf(vs) ==
  IF vs = << >> THEN {} ELSE SharedEdges(Head(vs)) \cup SharedEdgesOf(Tail(vs))

\* ------------------------------------------------------------------ step dispatcher

\* the custom-sample line as it would be without the mute test, here and in
\* triggerCustomSample
CustomVoices_IgnoresMute(track, step, time, buffer, muted) ==
  IF buffer # 0 /\ "custom" \in track.present /\ Slot(track.custom, step, FALSE)
    THEN << triggerCustomSample(time, buffer) >>
    ELSE << >>

\* shouldTriggerCustom and the guarded triggerCustomSample call
CustomVoices(track, step, time, buffer, muted) ==
  IF buffer # 0 /\ "custom" \in track.present /\ Slot(track.custom, step, FALSE) /\ ~muted
    THEN << triggerCustomSample(time, buffer) >>
    ELSE << >>

\* the reads sequences.kick[step], .hat[step], .bass[step], .lead[step] in the
\* order of the code: indexing an absent sequence throws a TypeError
Unguarded == << "kick", "hat", "bass", "lead" >>

\* the line of instrument name throws at this step: the sequence is absent, or the
\* note resolves to a member of Object.prototype, which triggerBass and triggerLead
\* assign to an AudioParam value (a TypeError: not a finite number)
LineThrows(track, step, name) ==
  \/ name \notin track.present
  \/ name \in {"bass", "lead"} /\ Slot(track[name], step, NoNote) \in ProtoKeys

\* scheduleStep throws on this document at this step
Throws(track, step) ==
  \E i \in DOMAIN Unguarded : LineThrows(track, step, Unguarded[i])

\* the instrument lines of scheduleStep that run to their end: all six, or those
\* before the first one that throws
Lines(track, step) ==
  IF Throws(track, step)
    THEN { Unguarded[i] : i \in { j \in DOMAIN Unguarded :
                                   \A k \in 1..j :
                                     ~LineThrows(track, step, Unguarded[k]) } }
    ELSE SeqNames

\* the voices scheduleStep(step, time) triggers, in the order of the code
StepVoices(track, step, time, buffer, muted, distortion) ==
  LET bassNote == Slot(track.bass, step, NoNote)
      leadNote == Slot(track.lead, step, NoNote)
      runs(name) == name \in Lines(track, step) /\ name \in track.present
  IN  (IF runs("kick") /\ Slot(track.kick, step, FALSE)
         THEN << triggerKick(time) >> ELSE << >>)
      \o (IF runs("hat") /\ Slot(track.hat, step, FALSE)
            THEN << triggerHat(time) >> ELSE << >>)
      \o (IF runs("bass") /\ bassNote # NoNote /\ bassNote \in DOMAIN NOTE_FREQS
            THEN << triggerBass(time, NOTE_FREQS[bassNote], distortion, TRUE) >>
            ELSE << >>)
      \o (IF runs("lead") /\ leadNote # NoNote /\ leadNote \in DOMAIN NOTE_FREQS
            THEN << triggerLead(time, NOTE_FREQS[leadNote], track.waveform) >>
            ELSE << >>)
      \o (IF runs("sfx") /\ Slot(track.sfx, step, FALSE) /\ track.soundEffect # "none"
            THEN triggerSFX(time, track.soundEffect)
            ELSE << >>)
      \o (IF "custom" \in Lines(track, step)
            THEN CustomVoices(track, step, time, buffer, muted)
            ELSE << >>)

\* the observer timeout as it would be armed with no delay
TimerDue_Immediate(time) == now

\* the device time the observer timeout is armed for: now + Math.max(0, delay)
TimerDue(time) == now + Max(0, time - now)

\* scheduleStep(step, time) on the state st of the drain loop: arms the observer
\* timeout, appends the voices and logs the call with the flags it read
scheduleStep(st, step, time) ==
  IF trackData = NoTrack \/ ~ctx THEN st
  ELSE LET vs == StepVoices(Tracks[trackData], step, time,
                            customBuffer, isCustomMuted, bassDistortionActive)
       IN  [st EXCEPT
              !.stepTimers = IF onStep
                               THEN Append(@, [due |-> TimerDue(time), step |-> step,
                                               time |-> time])
                               ELSE @,
              !.voices = @ \o vs,
              !.graph = @ \cup SharedEdgesOf(vs),
              !.dispatched = Append(@, [step |-> step, time |-> time,
                                        track |-> trackData,
                                        buffer |-> customBuffer,
                                        muted |-> isCustomMuted,
                                        dist |-> bassDistortionActive,
                                        decode |-> lastDecode,
                                        lo |-> Len(st.voices) + 1,
                                        hi |-> Len(st.voices) + Len(vs)]),
              !.raised = Throws(Tracks[trackData], step)]

\* the step duration as it would be with the tempo modifier left out
StepDuration_NoModifier(bpm, modifier) == (Ms(15000) * 100) \div (bpm * 100)

\* the floating-point Infinity, as a time no clock reaches
Infinity == Ms(1000000000)

\* 0.25 * (60.0 / (bpm * tempoModifier)) seconds, in ticks: Infinity for bpm 0,
\* negative for a negative bpm
StepDuration(bpm, modifier) ==
  IF bpm > 0 THEN (Ms(15000) * 100) \div (bpm * modifier)
  ELSE IF bpm = 0 THEN Infinity
  ELSE 0 - ((Ms(15000) * 100) \div ((0 - bpm) * modifier))

\* nextStep as it would be if the step index were not taken modulo 16
nextStep_NoWrap(st) ==
  IF trackData = NoTrack THEN st
  ELSE [st EXCEPT
          !.nextNoteTime = @ + StepDuration(Tracks[trackData].bpm, tempoModifier),
          !.currentStep = @ + 1]

\* nextStep() on the state st of the drain loop
nextStep(st) ==
  IF trackData = NoTrack THEN st
  ELSE [st EXCEPT
          !.nextNoteTime = @ + StepDuration(Tracks[trackData].bpm, tempoModifier),
          !.currentStep = (@ + 1) % NumSteps]

\* the loop of scheduler() as it would be with an if in place of the while
Drain_OneStep(st) ==
  IF st.nextNoteTime < now + scheduleAheadTime
    THEN LET sst == scheduleStep(st, st.currentStep, st.nextNoteTime)
         IN  IF sst.raised THEN sst ELSE nextStep(sst)
    ELSE st

\* the while loop of scheduler(); an exception thrown by scheduleStep leaves the
\* loop, and scheduler(), before nextStep
RECURSIVE Drain(_)
Drain(st) ==
  IF st.nextNoteTime < now + scheduleAheadTime
    THEN LET sst == scheduleStep(st, st.currentStep, st.nextNoteTime)
         IN  IF sst.raised THEN sst ELSE Drain(nextStep(sst))
    ELSE st

LoopState ==
  [nextNoteTime |-> nextNoteTime, currentStep |-> currentStep, voices |-> voices,
   dispatched |-> dispatched, stepTimers |-> stepTimers, graph |-> graph,
   raised |-> FALSE]

\* a handle no pending poll uses and that is not the stored one
FreshId == CHOOSE i \in 1..(Cardinality(polls) + 2) :
             i # timerID /\ \A p \in polls : p.id # i

\* the while loop never ends: a step is due, every nextStep() moves the next-trigger
\* time back (negative bpm) and no step of the pattern throws
Diverges(nnt) ==
  /\ nnt < now + scheduleAheadTime
  /\ Tracks[trackData].bpm < 0
  /\ \A step \in 0..(NumSteps - 1) : ~Throws(Tracks[trackData], step)

\* scheduler(): the guard, the drain loop and the re-arming of the poll, on top of
\* the pending polls ps; a loop that never ends leaves the thread stuck in it
Scheduler(ps, playing, nnt) ==
  IF ~ctx \/ trackData = NoTrack \/ ~playing
    THEN /\ polls' = ps
         /\ nextNoteTime' = nnt
         /\ UNCHANGED <<currentStep, voices, dispatched, stepTimers, graph, timerID,
                        raised, hung>>
    ELSE IF Diverges(nnt)
    THEN /\ hung' = TRUE
         /\ polls' = ps
         /\ nextNoteTime' = nnt
         /\ UNCHANGED <<currentStep, voices, dispatched, stepTimers, graph, timerID,
                        raised>>
    ELSE LET st == Drain([LoopState EXCEPT !.nextNoteTime = nnt])
         IN  /\ hung' = hung
             /\ nextNoteTime' = st.nextNoteTime
             /\ currentStep' = st.currentStep
             /\ voices' = st.voices
             /\ dispatched' = st.dispatched
             /\ stepTimers' = st.stepTimers
             /\ graph' = st.graph
             /\ raised' = (raised \/ st.raised)
             /\ timerID' = IF st.raised THEN timerID ELSE FreshId
             /\ polls' = IF st.raised
                            THEN ps
                            ELSE ps \cup { [id |-> FreshId, due |-> now + lookahead] }

\* ------------------------------------------------------------------ automation

\* the gesture-steered AudioParams and the values init() gives them
ParamNames == {"reverbSend.gain", "delaySend.gain", "distortionSend.gain",
               "masterFilter.frequency"}

ParamDefault(p) == IF p = "masterFilter.frequency" THEN 22000 ELSE 0

\* a param: the value last set directly and the scheduled automation events
\* [type, value, time], in time order
InitParams == [p \in ParamNames |-> [base |-> ParamDefault(p), events |-> << >>]]

Event(type, value, time) == [type |-> type, value |-> value, time |-> time]

\* AudioParam.cancelScheduledValues(t): drops every event at or after t
CancelScheduledValues(events, t) ==
  LET Before(e) == e.time < t IN SelectSeq(events, Before)

\* an automation method call: the event is inserted in time order, after the events
\* of the same time
InsertEvent(events, e) ==
  LET NotAfter(x) == x.time <= e.time
      After(x) == x.time > e.time
  IN  SelectSeq(events, NotAfter) \o << e >> \o SelectSeq(events, After)

\* the largest r in lo..hi with r * r <= n (lo when there is none above it)
RECURSIVE ISqrtIn(_, _, _)
ISqrtIn(n, lo, hi) ==
  IF lo >= hi THEN lo
  ELSE LET mid == (lo + hi + 1) \div 2
       IN  IF mid * mid <= n THEN ISqrtIn(n, mid, hi) ELSE ISqrtIn(n, lo, mid - 1)

\* a * (b / a) ^ (num / den) for 0 <= num <= den, by depth bisections of the
\* exponent (the geometric mean is the value half way)
RECURSIVE GeoInterp(_, _, _, _, _)
GeoInterp(a, b, num, den, depth) ==
  IF num = 0 \/ depth = 0 THEN a
  ELSE IF num = den THEN b
  ELSE LET mid == ISqrtIn(a * b, Min(a, b), Max(a, b))
       IN  IF 2 * num >= den
             THEN GeoInterp(mid, b, 2 * num - den, den, depth - 1)
             ELSE GeoInterp(a, mid, 2 * num, den, depth - 1)

\* linearRampToValueAtTime between (v0, t0) and (v1, t1), at t
LinearRamp(v0, v1, t0, t1, t) == v0 + ((v1 - v0) * (t - t0)) \div (t1 - t0)

\* exponentialRampToValueAtTime between (v0, t0) and (v1, t1), at t, to an eighth of
\* the time span: the value stays at v0 when v0 is zero or of the other sign
ExponentialRamp(v0, v1, t0, t1, t) ==
  IF v0 = 0 \/ v1 = 0 \/ (v0 < 0) # (v1 < 0) THEN v0
  ELSE GeoInterp(v0, v1, t - t0, t1 - t0, 3)

\* the value of a param at time t: the base value before the first event, a ramp in
\* progress interpolated, else the value of the last event at or before t
ValueAt(param, t) ==
  LET ev == param.events
      past == { i \in DOMAIN ev : ev[i].time <= t }
  IN  IF past = {} THEN param.base
      ELSE LET k == CHOOSE i \in past : \A j \in past : j <= i
           IN  IF k < Len(ev) /\ ev[k + 1].type = "linear"
                 THEN LinearRamp(ev[k].value, ev[k + 1].value, ev[k].time, ev[k + 1].time, t)
               ELSE IF k < Len(ev) /\ ev[k + 1].type = "exp"
                 THEN ExponentialRamp(ev[k].value, ev[k + 1].value,
                                      ev[k].time, ev[k + 1].time, t)
               ELSE ev[k].value

\* the tokens of triggerGestureFX, by number
FxNames == << "reverb", "filter", "distortion", "delay" >>

\* the param an effect steers
FxParam(name) ==
  CASE name = "reverb" -> "reverbSend.gain"
    [] name = "filter" -> "masterFilter.frequency"
    [] name = "distortion" -> "distortionSend.gain"
    [] name = "delay" -> "delaySend.gain"

\* the reverb curve as it would be with the wash-in overdriven to 1.5
FxRamps_Overdriven(name, time) ==
  CASE name = "reverb" ->
         << Event("linear", 1500, time + Ms(100)), Event("exp", 10, time + Ms(2000)) >>
    [] name = "filter" ->
         << Event("exp", 100, time + Ms(200)), Event("exp", 22000, time + Ms(1500)) >>
    [] name = "distortion" ->
         << Event("linear", 800, time + Ms(100)), Event("linear", 0, time + Ms(500)) >>
    [] name = "delay" ->
         << Event("linear", 1000, time + Ms(100)), Event("linear", 0, time + Ms(400)) >>

\* the two ramps of triggerReverb, triggerLowPass, triggerDistortion, triggerDelay
FxRamps(name, time) ==
  CASE name = "reverb" ->
         << Event("linear", 1000, time + Ms(100)), Event("exp", 10, time + Ms(2000)) >>
    [] name = "filter" ->
         << Event("exp", 100, time + Ms(200)), Event("exp", 22000, time + Ms(1500)) >>
    [] name = "distortion" ->
         << Event("linear", 800, time + Ms(100)), Event("linear", 0, time + Ms(500)) >>
    [] name = "delay" ->
         << Event("linear", 1000, time + Ms(100)), Event("linear", 0, time + Ms(400)) >>

\* the automation of a trigger as it would be without cancelScheduledValues
Retrigger_NoCancel(param, ramps, time) ==
  LET current == ValueAt(param, time)
      started == InsertEvent(param.events, Event("set", current, time))
  IN  [param EXCEPT !.events = InsertEvent(InsertEvent(started, ramps[1]), ramps[2])]

\* cancelScheduledValues(time); setValueAtTime(param.value, time); the two ramps.
\* param.value reads the value the automation has reached at the time of the call
Retrigger(param, ramps, time) ==
  LET current == ValueAt(param, time)
      started == InsertEvent(CancelScheduledValues(param.events, time),
                             Event("set", current, time))
  IN  [param EXCEPT !.events = InsertEvent(InsertEvent(started, ramps[1]), ramps[2])]

\* ------------------------------------------------------------------ initial state

\* no document has been produced or returned yet
NoResponse == [kick |-> 0, hat |-> 0, bass |-> 0, lead |-> 0, sfx |-> 0, custom |-> 0,
               error |-> FALSE, none |-> TRUE]

Init ==
  /\ ctx = FALSE
  /\ graph = {}
  /\ now = 0
  /\ nextNoteTime = 0
  /\ currentStep = 0
  /\ timerID = 0
  /\ isPlaying = FALSE
  /\ trackData = NoTrack
  /\ customBuffer = 0
  /\ isCustomMuted = FALSE
  /\ tempoModifier = 100
  /\ bassDistortionActive = FALSE
  /\ onStep = FALSE
  /\ polls = {}
  /\ stepTimers = << >>
  /\ voices = << >>
  /\ dispatched = << >>
  /\ params = InitParams
  /\ notified = << >>
  /\ decoding = 0
  /\ suspended = FALSE
  /\ resuming = 0
  /\ created = 0
  /\ lastDecode = "none"
  /\ raised = FALSE
  /\ hung = FALSE
  /\ response = NoResponse
  /\ result = NoResponse
  /\ wasBlinking = FALSE
  /\ frames = << >>
  /\ session = FALSE
  /\ isConnected = FALSE
  /\ connecting = 0
  /\ sockets = 0
  /\ received = << >>
  /\ effects = << >>
  /\ responses = 0
  /\ liveRaised = FALSE
  /\ volume = 0
  /\ recording = FALSE
  /\ calls = 0
  /\ lastOp = [name |-> "new", arg |-> 0, nnt |-> 0, ndisp |-> 0, playing |-> FALSE]

\* ------------------------------------------------------------------ operations

\* a control call: counted, at most limit of them, and recorded in lastOp with the
\* state it found
CallWithin(limit, name, arg) ==
  /\ calls < limit
  /\ calls' = calls + 1
  /\ lastOp' = [name |-> name, arg |-> arg, nnt |-> nextNoteTime,
                ndisp |-> Len(dispatched), playing |-> isPlaying]

Call(name, arg) == CallWithin(MaxCalls, name, arg)

LiveCall(name, arg) == CallWithin(LiveCalls, name, arg)

\* the body of init() as it would be without the test for an existing context
BuildOnce_Unguarded(s) ==
  /\ ctx' = TRUE
  /\ graph' = graph \cup InitGraph
  /\ params' = InitParams
  /\ created' = created + Cardinality(SharedNodes)
  /\ suspended' = s
  /\ resuming' = IF suspended' THEN resuming + 1 ELSE resuming

\* the body of init() up to its await: when there is no context yet, creates it (in
\* state s: suspended or running) with the shared nodes and their routing; a
\* suspended context is resumed and the call awaits that
BuildOnce(s) ==
  /\ ctx' = TRUE
  /\ graph' = IF ctx THEN graph ELSE InitGraph
  /\ params' = IF ctx THEN params ELSE InitParams
  /\ created' = IF ctx THEN created ELSE created + Cardinality(SharedNodes)
  /\ suspended' = IF ctx THEN suspended ELSE s
  /\ resuming' = IF suspended' THEN resuming + 1 ELSE resuming

\* init()
EngineInit ==
  /\ Call("init", 0)
  /\ \E s \in BOOLEAN : BuildOnce(s)
  /\ UNCHANGED <<nextNoteTime, currentStep, timerID, isPlaying, trackData,
                 customBuffer, isCustomMuted, tempoModifier, bassDistortionActive,
                 onStep, now, polls, stepTimers, voices, dispatched, notified,
                 decoding, lastDecode, raised, hung, service, overlay, live, output>>

\* ctx.resume() has resolved: the context runs and the init() calls awaiting it return
Resumed ==
  /\ suspended
  /\ suspended' = FALSE
  /\ resuming' = 0
  /\ UNCHANGED <<engine, now, polls, stepTimers, voices, dispatched, params, notified,
                 decoding, created, lastDecode, raised, hung, service, overlay, live, output,
                 calls, lastOp>>

\* loadTrack as it would be if loading restarted the clock
LoadTrack_RestartsClock(t) ==
  /\ Call("loadTrack", t)
  /\ trackData' = t
  /\ currentStep' = 0
  /\ nextNoteTime' = now + playOffset
  /\ UNCHANGED <<ctx, graph, timerID, isPlaying, customBuffer,
                 isCustomMuted, tempoModifier, bassDistortionActive, onStep, platform>>

\* loadTrack(data)
LoadTrack(t) ==
  /\ Call("loadTrack", t)
  /\ trackData' = t
  /\ currentStep' = 0
  /\ UNCHANGED <<ctx, graph, nextNoteTime, timerID, isPlaying, customBuffer,
                 isCustomMuted, tempoModifier, bassDistortionActive, onStep, platform>>

\* play as it would be without the check for a loaded track
Play_NoTrackCheck ==
  /\ Call("play", 0)
  /\ IF ~ctx
       THEN UNCHANGED <<engine, platform>>
       ELSE /\ Cardinality(polls) < MaxPolls
            /\ isPlaying' = TRUE
            /\ Scheduler(polls, TRUE, now + playOffset)
            /\ UNCHANGED <<ctx, trackData, customBuffer, isCustomMuted, tempoModifier,
                           bassDistortionActive, onStep, now, params, notified,
                           decoding, device, lastDecode, service, overlay, live, output>>

\* play as it would be if it set the next-trigger time to now, with no offset
Play_NoOffset ==
  /\ Call("play", 0)
  /\ IF ~ctx \/ trackData = NoTrack
       THEN UNCHANGED <<engine, platform>>
       ELSE /\ Cardinality(polls) < MaxPolls
            /\ isPlaying' = TRUE
            /\ Scheduler(polls, TRUE, now)
            /\ UNCHANGED <<ctx, trackData, customBuffer, isCustomMuted, tempoModifier,
                           bassDistortionActive, onStep, now, params, notified,
                           decoding, device, lastDecode, service, overlay, live, output>>

\* play as it would be if it rewound the pattern
Play_Rewinds ==
  /\ Call("play", 0)
  /\ IF ~ctx \/ trackData = NoTrack
       THEN UNCHANGED <<engine, platform>>
       ELSE /\ Cardinality(polls) < MaxPolls
            /\ isPlaying' = TRUE
            /\ currentStep' = 0
            /\ nextNoteTime' = now + playOffset
            /\ timerID' = FreshId
            /\ polls' = polls \cup { [id |-> FreshId, due |-> now + lookahead] }
            /\ UNCHANGED <<ctx, graph, trackData, customBuffer, isCustomMuted,
                           tempoModifier, bassDistortionActive, onStep, now, stepTimers,
                           voices, dispatched, params, notified, decoding, device,
                           lastDecode, raised, hung, service, overlay, live, output>>

\* play()
Play ==
  /\ Call("play", 0)
  /\ IF ~ctx \/ trackData = NoTrack
       THEN UNCHANGED <<engine, platform>>
       ELSE /\ Cardinality(polls) < MaxPolls
            /\ isPlaying' = TRUE
            /\ Scheduler(polls, TRUE, now + playOffset)
            /\ UNCHANGED <<ctx, trackData, customBuffer, isCustomMuted, tempoModifier,
                           bassDistortionActive, onStep, now, params, notified,
                           decoding, device, lastDecode, service, overlay, live, output>>

\* stop as it would be if it only cancelled the poll and left the flag set
Stop_KeepsFlag ==
  /\ Call("stop", 0)
  /\ polls' = IF timerID # 0 THEN { p \in polls : p.id # timerID } ELSE polls
  /\ UNCHANGED <<ctx, graph, nextNoteTime, currentStep, timerID, isPlaying, trackData,
                 customBuffer, isCustomMuted, tempoModifier, bassDistortionActive,
                 onStep, now, stepTimers, voices, dispatched, params, notified,
                 decoding, device, hung, lastDecode, raised, service, overlay, live, output>>

\* stop as it would be if it also rewound the pattern
Stop_Rewinds ==
  /\ Call("stop", 0)
  /\ isPlaying' = FALSE
  /\ currentStep' = 0
  /\ polls' = IF timerID # 0 THEN { p \in polls : p.id # timerID } ELSE polls
  /\ UNCHANGED <<ctx, graph, nextNoteTime, timerID, trackData,
                 customBuffer, isCustomMuted, tempoModifier, bassDistortionActive,
                 onStep, now, stepTimers, voices, dispatched, params, notified,
                 decoding, device, hung, lastDecode, raised, service, overlay, live, output>>

\* stop()
Stop ==
  /\ Call("stop", 0)
  /\ isPlaying' = FALSE
  /\ polls' = IF timerID # 0 THEN { p \in polls : p.id # timerID } ELSE polls
  /\ UNCHANGED <<ctx, graph, nextNoteTime, currentStep, timerID, trackData,
                 customBuffer, isCustomMuted, tempoModifier, bassDistortionActive,
                 onStep, now, stepTimers, voices, dispatched, params, notified,
                 decoding, device, hung, lastDecode, raised, service, overlay, live, output>>

\* the clamp as it would be with the upper limit forgotten
ClampTempo_NoUpper(modifier) == Max(TempoMin, modifier)

\* Math.max(0.5, Math.min(2.0, modifier))
ClampTempo(modifier) == Max(TempoMin, Min(TempoMax, modifier))

\* setTempoModifier as it would be if it also re-timed the step that is due
SetTempoModifier_Retimes(x) ==
  /\ Call("setTempoModifier", x)
  /\ tempoModifier' = ClampTempo(x)
  /\ nextNoteTime' = IF isPlaying THEN now + playOffset ELSE nextNoteTime
  /\ UNCHANGED <<ctx, graph, currentStep, timerID, isPlaying, trackData,
                 customBuffer, isCustomMuted, bassDistortionActive, onStep, platform>>

\* setTempoModifier(modifier)
SetTempoModifier(x) ==
  /\ Call("setTempoModifier", x)
  /\ tempoModifier' = ClampTempo(x)
  /\ UNCHANGED <<ctx, graph, nextNoteTime, currentStep, timerID, isPlaying, trackData,
                 customBuffer, isCustomMuted, bassDistortionActive, onStep, platform>>

\* setVolume as it would be without the test for the master gain and the context
SetVolume_Unguarded(level) ==
  /\ Call("setVolume", level)
  /\ volume' = level
  /\ UNCHANGED <<engine, now, polls, stepTimers, voices, dispatched, params, notified,
                 decoding, device, hung, lastDecode, raised, service, overlay, live, recording>>

\* setVolume(level), level in thousandths: a smoothed ramp of the master gain
SetVolume(level) ==
  /\ Call("setVolume", level)
  /\ volume' = IF ctx THEN level ELSE volume
  /\ UNCHANGED <<engine, now, polls, stepTimers, voices, dispatched, params, notified,
                 decoding, device, hung, lastDecode, raised, service, overlay, live, recording>>

\* the voice of triggerCowbell(): two oscillators through a bandpass, started now
Cowbell ==
  Voice("cowbell", now, 0,
        { <<"osc1", "filter">>, <<"osc2", "filter">>,
          <<"filter", "gain">>, <<"gain", "masterGain">> })

\* triggerCowbell()
TriggerCowbell ==
  /\ Call("triggerCowbell", 0)
  /\ voices' = IF ctx THEN Append(voices, Cowbell) ELSE voices
  /\ UNCHANGED <<engine, now, polls, stepTimers, dispatched, params, notified,
                 decoding, device, hung, lastDecode, raised, service, overlay, live, output>>

\* startRecording(): needs the recording tap init() creates
StartRecording ==
  /\ Call("startRecording", 0)
  /\ recording' = (ctx \/ recording)
  /\ UNCHANGED <<engine, now, polls, stepTimers, voices, dispatched, params, notified,
                 decoding, device, hung, lastDecode, raised, service, overlay, live, volume>>

\* the poll intervals the clock advances by in one step: the event loop is free
\* (1) or stalled for a while (5)
TickSizes == {1, 5}

\* triggerGestureFX(effectName), the effect given by its number in FxNames
TriggerGestureFX(n) ==
  /\ CallWithin(MaxTriggers, "triggerGestureFX", n)
  /\ params' = IF ctx
                 THEN LET name == FxNames[n]
                      IN  [params EXCEPT ![FxParam(name)] =
                                           Retrigger(@, FxRamps(name, now), now)]
                 ELSE params
  /\ UNCHANGED <<engine, now, polls, stepTimers, voices, dispatched, notified, decoding,
                 device, hung, lastDecode, raised, service, overlay, live, output>>

\* the device clock advances by one or four steps of 50ms
TickFx ==
  /\ ~suspended
  /\ \E d \in {1, 4} :
       /\ now + d * Ms(50) <= FxClock * Ms(50)
       /\ now' = now + d * Ms(50)
  /\ UNCHANGED <<engine, polls, stepTimers, voices, dispatched, params, notified,
                 decoding, device, hung, lastDecode, raised, service, overlay, live, output, calls, lastOp>>

\* the device clock advances, up to limit poll intervals; a timeout that is due
\* fires before it advances again
TickTo(limit) ==
  /\ ~suspended
  /\ \A p \in polls : now < p.due
  /\ \A i \in DOMAIN stepTimers : now < stepTimers[i].due
  /\ \E d \in TickSizes :
       /\ now + d * lookahead <= limit * lookahead
       /\ now' = now + d * lookahead
  /\ UNCHANGED <<engine, polls, stepTimers, voices, dispatched, params, notified,
                 decoding, device, hung, lastDecode, raised, service, overlay, live, output, calls, lastOp>>

Tick == TickTo(MaxClock)

\* muteCustomTrack(mute); mute is 1 for true, 0 for false
MuteCustomTrack(mute) ==
  /\ LiveCall("muteCustomTrack", mute)
  /\ isCustomMuted' = (mute = 1)
  /\ UNCHANGED <<ctx, graph, nextNoteTime, currentStep, timerID, isPlaying, trackData,
                 customBuffer, tempoModifier, bassDistortionActive, onStep, platform>>

\* setBassDistortion(active); active is 1 for true, 0 for false
SetBassDistortion(active) ==
  /\ LiveCall("setBassDistortion", active)
  /\ bassDistortionActive' = (active = 1)
  /\ UNCHANGED <<ctx, graph, nextNoteTime, currentStep, timerID, isPlaying, trackData,
                 customBuffer, isCustomMuted, tempoModifier, onStep, platform>>

\* loadCustomSample(arrayBuffer), up to the await of decodeAudioData: builds the
\* graph when there is no context yet and starts the decoding
LoadCustomSample ==
  /\ LiveCall("loadCustomSample", 0)
  /\ IF ctx THEN UNCHANGED <<ctx, graph, params, device>>
            ELSE \E s \in BOOLEAN : BuildOnce(s)
  /\ decoding' = decoding + 1
  /\ UNCHANGED <<nextNoteTime, currentStep, timerID, isPlaying, trackData,
                 customBuffer, isCustomMuted, tempoModifier, bassDistortionActive,
                 onStep, now, polls, stepTimers, voices, dispatched, notified,
                 lastDecode, raised, hung, service, overlay, live, output>>

\* the continuation as it would be if a failed decode dropped the loaded sample
DecodeDone_DropsOnFailure(ok) ==
  /\ decoding > 0
  /\ decoding' = decoding - 1
  /\ customBuffer' = IF ok THEN customBuffer + 1 ELSE 0
  /\ isCustomMuted' = IF ok THEN FALSE ELSE isCustomMuted
  /\ lastDecode' = IF ok THEN "ok" ELSE "failed"
  /\ UNCHANGED <<ctx, graph, nextNoteTime, currentStep, timerID, isPlaying, trackData,
                 tempoModifier, bassDistortionActive, onStep, now, polls, stepTimers,
                 voices, dispatched, params, notified, device, hung, raised, service, overlay, live, output,
                 calls, lastOp>>

\* loadCustomSample after the await: decodeAudioData has resolved (ok) with a new
\* buffer, or has rejected and the error is logged
DecodeDone(ok) ==
  /\ decoding > 0
  /\ decoding' = decoding - 1
  /\ customBuffer' = IF ok THEN customBuffer + 1 ELSE customBuffer
  /\ isCustomMuted' = IF ok THEN FALSE ELSE isCustomMuted
  /\ lastDecode' = IF ok THEN "ok" ELSE "failed"
  /\ UNCHANGED <<ctx, graph, nextNoteTime, currentStep, timerID, isPlaying, trackData,
                 tempoModifier, bassDistortionActive, onStep, now, polls, stepTimers,
                 voices, dispatched, params, notified, device, hung, raised, service, overlay, live, output,
                 calls, lastOp>>

\* a pending poll timeout fires, at or after its due time: scheduler(); no timeout
\* runs while the control thread is stuck in an earlier one
PollFire ==
  \E p \in polls :
    /\ ~hung
    /\ p.due <= now
    /\ Scheduler(polls \ {p}, isPlaying, nextNoteTime)
    /\ UNCHANGED <<ctx, isPlaying, trackData, customBuffer, isCustomMuted, tempoModifier,
                   bassDistortionActive, onStep, now, params, notified, decoding,
                   device, lastDecode, service, overlay, live, output, calls, lastOp>>

\* the oldest observer timeout runs, at or after its due time: the arrow function
\* () => this.onStep!(step), which calls whatever onStep holds by then
StepTimerFire ==
  /\ stepTimers # << >>
  /\ Head(stepTimers).due <= now
  /\ notified' = Append(notified, [step |-> Head(stepTimers).step,
                                    time |-> Head(stepTimers).time,
                                    at |-> now, null |-> ~onStep])
  /\ stepTimers' = Tail(stepTimers)
  /\ UNCHANGED <<engine, now, polls, voices, dispatched, params, decoding, device, hung,
                 lastDecode, raised, service, overlay, live, output, calls, lastOp>>

\* the App mounts (registered = TRUE) or unmounts: engine.onStep = (step) => ...,
\* engine.onStep = null
SetOnStep(registered) ==
  /\ onStep # registered
  /\ onStep' = registered
  /\ UNCHANGED <<ctx, graph, nextNoteTime, currentStep, timerID, isPlaying, trackData,
                 customBuffer, isCustomMuted, tempoModifier, bassDistortionActive,
                 platform, calls, lastOp>>

\* the blendshape scores of a frame (hundredths); a category the detector does not
\* report scores 0
LeftEyeScores == {0, 90}

RightEyeScores == {0, 50}

JawScores == {0, 30}

SmileScores == {0, 100}

\* eyeBlink > 0.4 for the average of both eyes
IsBlinking(left, right) == left + right > 2 * 40

\* the cowbell test as it would be without the memory of the previous frame
BlinkStart_Level(isBlinking, was) == isBlinking

\* isBlinking && !wasBlinking.current
BlinkStart(isBlinking, was) == isBlinking /\ ~was

\* analyzeFaceExpression(categories) on one frame: setVolume, setTempoModifier, the
\* cowbell on the start of a blink, setBassDistortion(false)
AnalyzeFaceExpression ==
  /\ Len(frames) < MaxFrames
  /\ \E jawOpen \in JawScores, smile \in SmileScores,
        left \in LeftEyeScores, right \in RightEyeScores :
       /\ frames' = Append(frames, [left |-> left, right |-> right])
       /\ volume' = IF ctx THEN Min(1000, 500 + jawOpen * 20) ELSE volume
       /\ tempoModifier' = ClampTempo(100 + smile \div 2)
       /\ voices' = IF BlinkStart(IsBlinking(left, right), wasBlinking) /\ ctx
                      THEN Append(voices, Cowbell)
                      ELSE voices
       /\ wasBlinking' = IsBlinking(left, right)
  /\ bassDistortionActive' = FALSE
  /\ UNCHANGED <<ctx, graph, nextNoteTime, currentStep, timerID, isPlaying, trackData,
                 customBuffer, isCustomMuted, onStep, now, polls, stepTimers, dispatched,
                 params, notified, decoding, device, hung, lastDecode, raised, service,
                 live, recording, calls, lastOp>>

\* the modifier values setTempoModifier is called with (hundredths)
TempoInputs == {25, 100, 300}

Next ==
  \/ EngineInit
  \/ \E t \in TrackIds : LoadTrack(t)
  \/ Play
  \/ Stop
  \/ \E x \in TempoInputs : SetTempoModifier(x)
  \/ Resumed
  \/ Tick
  \/ PollFire

Spec == Init /\ [][Next]_vars

\* ------------------------------------------------------------------ one pass

\* the device times at which the pass is started
StartTimes == {0, Ms(40)}

\* the tempo modifiers a pass is played at
PassModifiers == {50, 100, 200}

\* the engine right after init(), loadTrack(t), setTempoModifier(m) and play(), with
\* the step index at any position of the pattern: play() has set the next-trigger
\* time to now + 0.1 and armed the first poll
InitPass ==
  /\ ctx = TRUE
  /\ graph = InitGraph
  /\ now \in StartTimes
  /\ nextNoteTime = now + playOffset
  /\ currentStep \in 0..(NumSteps - 1)
  /\ timerID = 1
  /\ isPlaying = TRUE
  /\ trackData \in TrackIds
  /\ customBuffer = 0
  /\ isCustomMuted = FALSE
  /\ tempoModifier \in PassModifiers
  /\ bassDistortionActive = FALSE
  /\ onStep = FALSE
  /\ polls = { [id |-> 1, due |-> now + lookahead] }
  /\ stepTimers = << >>
  /\ voices = << >>
  /\ dispatched = << >>
  /\ params = InitParams
  /\ notified = << >>
  /\ decoding = 0
  /\ suspended = FALSE
  /\ resuming = 0
  /\ created = Cardinality(SharedNodes)
  /\ lastDecode = "none"
  /\ raised = FALSE
  /\ hung = FALSE
  /\ response = NoResponse
  /\ result = NoResponse
  /\ wasBlinking = FALSE
  /\ frames = << >>
  /\ session = FALSE
  /\ isConnected = FALSE
  /\ connecting = 0
  /\ sockets = 0
  /\ received = << >>
  /\ effects = << >>
  /\ responses = 0
  /\ liveRaised = FALSE
  /\ volume = 0
  /\ recording = FALSE
  /\ calls = 0
  /\ lastOp = [name |-> "play", arg |-> 0, nnt |-> 0, ndisp |-> 0, playing |-> FALSE]

TickPass == TickTo(PassClock)

NextPass == TickPass \/ PollFire

\* the scheduler left to run over the pattern, no control call interfering
SpecPass == InitPass /\ [][NextPass]_vars

\* ------------------------------------------------------------------ live flags

\* the engine right after init(), a first loadCustomSample, loadTrack(t),
\* setTempoModifier(2.0) and play() at time 0
InitLive ==
  /\ ctx = TRUE
  /\ graph = InitGraph
  /\ now = 0
  /\ nextNoteTime = now + playOffset
  /\ currentStep = 0
  /\ timerID = 1
  /\ isPlaying = TRUE
  /\ trackData \in TrackIds
  /\ customBuffer = 1
  /\ isCustomMuted = FALSE
  /\ tempoModifier = 200
  /\ bassDistortionActive = FALSE
  /\ onStep = FALSE
  /\ polls = { [id |-> 1, due |-> now + lookahead] }
  /\ stepTimers = << >>
  /\ voices = << >>
  /\ dispatched = << >>
  /\ params = InitParams
  /\ notified = << >>
  /\ decoding = 0
  /\ suspended = FALSE
  /\ resuming = 0
  /\ created = Cardinality(SharedNodes)
  /\ lastDecode = "ok"
  /\ raised = FALSE
  /\ hung = FALSE
  /\ response = NoResponse
  /\ result = NoResponse
  /\ wasBlinking = FALSE
  /\ frames = << >>
  /\ session = FALSE
  /\ isConnected = FALSE
  /\ connecting = 0
  /\ sockets = 0
  /\ received = << >>
  /\ effects = << >>
  /\ responses = 0
  /\ liveRaised = FALSE
  /\ volume = 0
  /\ recording = FALSE
  /\ calls = 0
  /\ lastOp = [name |-> "play", arg |-> 0, nnt |-> 0, ndisp |-> 0, playing |-> FALSE]

TickLive == TickTo(LiveClock)

NextLive ==
  \/ TickLive
  \/ PollFire
  \/ \E m \in {0, 1} : MuteCustomTrack(m)
  \/ \E a \in {0, 1} : SetBassDistortion(a)
  \/ LoadCustomSample
  \/ \E ok \in BOOLEAN : DecodeDone(ok)

\* a playing engine with the custom-track and bass flags changed under it
SpecLive == InitLive /\ [][NextLive]_vars

\* ------------------------------------------------------------------ gestures

\* the engine right after init(): the graph is built, nothing is loaded
InitFx ==
  /\ ctx = TRUE
  /\ graph = InitGraph
  /\ now = 0
  /\ nextNoteTime = 0
  /\ currentStep = 0
  /\ timerID = 0
  /\ isPlaying = FALSE
  /\ trackData = NoTrack
  /\ customBuffer = 0
  /\ isCustomMuted = FALSE
  /\ tempoModifier = 100
  /\ bassDistortionActive = FALSE
  /\ onStep = FALSE
  /\ polls = {}
  /\ stepTimers = << >>
  /\ voices = << >>
  /\ dispatched = << >>
  /\ params = InitParams
  /\ notified = << >>
  /\ decoding = 0
  /\ suspended = FALSE
  /\ resuming = 0
  /\ created = Cardinality(SharedNodes)
  /\ lastDecode = "none"
  /\ raised = FALSE
  /\ hung = FALSE
  /\ response = NoResponse
  /\ result = NoResponse
  /\ wasBlinking = FALSE
  /\ frames = << >>
  /\ session = FALSE
  /\ isConnected = FALSE
  /\ connecting = 0
  /\ sockets = 0
  /\ received = << >>
  /\ effects = << >>
  /\ responses = 0
  /\ liveRaised = FALSE
  /\ volume = 0
  /\ recording = FALSE
  /\ calls = 0
  /\ lastOp = [name |-> "init", arg |-> 0, nnt |-> 0, ndisp |-> 0, playing |-> FALSE]

NextFx ==
  \/ TickFx
  \/ \E n \in DOMAIN FxNames : TriggerGestureFX(n)

\* gesture effects triggered at any time on an initialized engine
SpecFx == InitFx /\ [][NextFx]_vars

\* ------------------------------------------------------------------ stop and restart

\* the documents of the sessions that are stopped and restarted: one with the cat
\* one-shot, one with the dog's double bark
StopTracks == {1, 3}

\* the engine right after init() from a user gesture and loadTrack(t), its two
\* calls counted
InitStop ==
  /\ ctx = TRUE
  /\ graph = InitGraph
  /\ now = 0
  /\ nextNoteTime = 0
  /\ currentStep = 0
  /\ timerID = 0
  /\ isPlaying = FALSE
  /\ trackData \in StopTracks
  /\ customBuffer = 0
  /\ isCustomMuted = FALSE
  /\ tempoModifier = 100
  /\ bassDistortionActive = FALSE
  /\ onStep = FALSE
  /\ polls = {}
  /\ stepTimers = << >>
  /\ voices = << >>
  /\ dispatched = << >>
  /\ params = InitParams
  /\ notified = << >>
  /\ decoding = 0
  /\ suspended = FALSE
  /\ resuming = 0
  /\ created = Cardinality(SharedNodes)
  /\ lastDecode = "none"
  /\ raised = FALSE
  /\ hung = FALSE
  /\ response = NoResponse
  /\ result = NoResponse
  /\ wasBlinking = FALSE
  /\ frames = << >>
  /\ session = FALSE
  /\ isConnected = FALSE
  /\ connecting = 0
  /\ sockets = 0
  /\ received = << >>
  /\ effects = << >>
  /\ responses = 0
  /\ liveRaised = FALSE
  /\ volume = 0
  /\ recording = FALSE
  /\ calls = 2
  /\ lastOp = [name |-> "loadTrack", arg |-> trackData, nnt |-> 0, ndisp |-> 0,
               playing |-> FALSE]

NextStop ==
  \/ Play
  \/ Stop
  \/ \E x \in {200} : SetTempoModifier(x)
  \/ Tick
  \/ PollFire

\* a loaded engine started and stopped at any time
SpecStop == InitStop /\ [][NextStop]_vars

\* ------------------------------------------------------------------ whole sessions

\* the step indices a session is picked up at, the last two of the pattern
LateSteps == {NumSteps - 2, NumSteps - 1}

\* the engine in the middle of a pattern: init(), loadTrack(t), setTempoModifier(m)
\* and play() were called, their four calls counted, the scheduler has advanced to
\* one of the last steps and left the next-trigger time a lookahead window ahead,
\* one poll pending
InitLate ==
  /\ ctx = TRUE
  /\ graph = InitGraph
  /\ now = 0
  /\ nextNoteTime = now + scheduleAheadTime
  /\ currentStep \in LateSteps
  /\ timerID = 1
  /\ isPlaying = TRUE
  /\ trackData \in TrackIds
  /\ customBuffer = 0
  /\ isCustomMuted = FALSE
  /\ tempoModifier \in PassModifiers
  /\ bassDistortionActive = FALSE
  /\ onStep = FALSE
  /\ polls = { [id |-> 1, due |-> now + lookahead] }
  /\ stepTimers = << >>
  /\ voices = << >>
  /\ dispatched = << >>
  /\ params = InitParams
  /\ notified = << >>
  /\ decoding = 0
  /\ suspended = FALSE
  /\ resuming = 0
  /\ created = Cardinality(SharedNodes)
  /\ lastDecode = "none"
  /\ raised = FALSE
  /\ hung = FALSE
  /\ response = NoResponse
  /\ result = NoResponse
  /\ wasBlinking = FALSE
  /\ frames = << >>
  /\ session = FALSE
  /\ isConnected = FALSE
  /\ connecting = 0
  /\ sockets = 0
  /\ received = << >>
  /\ effects = << >>
  /\ responses = 0
  /\ liveRaised = FALSE
  /\ volume = 0
  /\ recording = FALSE
  /\ calls = 4
  /\ lastOp = [name |-> "play", arg |-> 0, nnt |-> 0, ndisp |-> 0, playing |-> FALSE]

\* a session from the new engine on, or picked up near the end of the pattern
InitSession == Init \/ InitLate

\* any sequence of init, loadTrack, play, stop, setTempoModifier and poll ticks
SpecSession == InitSession /\ [][Next]_vars

\* ------------------------------------------------------------------ note names

\* the documents whose note slots are played: 1 with a name outside the table, 3
\* with the double bark, 7 with a name NOTE_FREQS inherits
NoteTracks == {1, 3, 7}

\* the engine right after init(), a loadCustomSample, loadTrack(t),
\* setTempoModifier(m) and play() at time 0
InitNotes ==
  /\ ctx = TRUE
  /\ graph = InitGraph
  /\ now = 0
  /\ nextNoteTime = now + playOffset
  /\ currentStep = 0
  /\ timerID = 1
  /\ isPlaying = TRUE
  /\ trackData \in NoteTracks
  /\ customBuffer = 1
  /\ isCustomMuted = FALSE
  /\ tempoModifier \in {100, 200}
  /\ bassDistortionActive = FALSE
  /\ onStep = FALSE
  /\ polls = { [id |-> 1, due |-> now + lookahead] }
  /\ stepTimers = << >>
  /\ voices = << >>
  /\ dispatched = << >>
  /\ params = InitParams
  /\ notified = << >>
  /\ decoding = 0
  /\ suspended = FALSE
  /\ resuming = 0
  /\ created = Cardinality(SharedNodes)
  /\ lastDecode = "ok"
  /\ raised = FALSE
  /\ hung = FALSE
  /\ response = NoResponse
  /\ result = NoResponse
  /\ wasBlinking = FALSE
  /\ frames = << >>
  /\ session = FALSE
  /\ isConnected = FALSE
  /\ connecting = 0
  /\ sockets = 0
  /\ received = << >>
  /\ effects = << >>
  /\ responses = 0
  /\ liveRaised = FALSE
  /\ volume = 0
  /\ recording = FALSE
  /\ calls = 0
  /\ lastOp = [name |-> "play", arg |-> 0, nnt |-> 0, ndisp |-> 0, playing |-> FALSE]

NextNotes == TickPass \/ PollFire

\* the scheduler left to run over the pattern of such a document
SpecNotes == InitNotes /\ [][NextNotes]_vars

\* ------------------------------------------------------------------ step observer

\* the engine right after loadTrack(t), setTempoModifier(m) and play() at time 0,
\* with the App's observer registered or with none
InitObserver ==
  /\ ctx = TRUE
  /\ graph = InitGraph
  /\ now = 0
  /\ nextNoteTime = now + playOffset
  /\ currentStep = 0
  /\ timerID = 1
  /\ isPlaying = TRUE
  /\ trackData \in TrackIds
  /\ customBuffer = 0
  /\ isCustomMuted = FALSE
  /\ tempoModifier \in {100, 200}
  /\ bassDistortionActive = FALSE
  /\ onStep \in BOOLEAN
  /\ polls = { [id |-> 1, due |-> now + lookahead] }
  /\ stepTimers = << >>
  /\ voices = << >>
  /\ dispatched = << >>
  /\ params = InitParams
  /\ notified = << >>
  /\ decoding = 0
  /\ suspended = FALSE
  /\ resuming = 0
  /\ created = Cardinality(SharedNodes)
  /\ lastDecode = "none"
  /\ raised = FALSE
  /\ hung = FALSE
  /\ response = NoResponse
  /\ result = NoResponse
  /\ wasBlinking = FALSE
  /\ frames = << >>
  /\ session = FALSE
  /\ isConnected = FALSE
  /\ connecting = 0
  /\ sockets = 0
  /\ received = << >>
  /\ effects = << >>
  /\ responses = 0
  /\ liveRaised = FALSE
  /\ volume = 0
  /\ recording = FALSE
  /\ calls = 0
  /\ lastOp = [name |-> "play", arg |-> 0, nnt |-> 0, ndisp |-> 0, playing |-> FALSE]

TickObserver == TickTo(ObserverClock)

NextObserver == TickObserver \/ PollFire \/ StepTimerFire

\* the scheduler and the observer timeouts left to run over the pattern
SpecObserver == InitObserver /\ [][NextObserver]_vars

\* the same session with the App unmounting and mounting again at any time
NextUnmount == NextObserver \/ \E registered \in BOOLEAN : SetOnStep(registered)

SpecUnmount == InitObserver /\ [][NextUnmount]_vars

\* ------------------------------------------------------------------ camera overlay

\* the engine after init() when face frames start to arrive: a track loaded and
\* stopped or playing since time 0, as under the App's camera overlay, or no track
\* loaded, as for any other caller of the public triggerCowbell
InitFace ==
  /\ now = 0
  /\ isPlaying \in BOOLEAN
  /\ trackData \in {NoTrack, 1}
  /\ isPlaying => trackData # NoTrack
  /\ ctx = TRUE
  /\ graph = InitGraph
  /\ nextNoteTime = IF isPlaying THEN now + playOffset ELSE 0
  /\ currentStep = 0
  /\ timerID = IF isPlaying THEN 1 ELSE 0
  /\ customBuffer = 0
  /\ isCustomMuted = FALSE
  /\ tempoModifier = 100
  /\ bassDistortionActive = FALSE
  /\ onStep = FALSE
  /\ polls = IF isPlaying THEN { [id |-> 1, due |-> now + lookahead] } ELSE {}
  /\ stepTimers = << >>
  /\ voices = << >>
  /\ dispatched = << >>
  /\ params = InitParams
  /\ notified = << >>
  /\ decoding = 0
  /\ suspended = FALSE
  /\ resuming = 0
  /\ created = Cardinality(SharedNodes)
  /\ lastDecode = "none"
  /\ raised = FALSE
  /\ hung = FALSE
  /\ response = NoResponse
  /\ result = NoResponse
  /\ wasBlinking = FALSE
  /\ frames = << >>
  /\ session = FALSE
  /\ isConnected = FALSE
  /\ connecting = 0
  /\ sockets = 0
  /\ received = << >>
  /\ effects = << >>
  /\ responses = 0
  /\ liveRaised = FALSE
  /\ volume = 0
  /\ recording = FALSE
  /\ calls = 0
  /\ lastOp = [name |-> "play", arg |-> 0, nnt |-> 0, ndisp |-> 0, playing |-> FALSE]

TickFace == TickTo(FaceClock)

NextFace == AnalyzeFaceExpression \/ TickFace \/ PollFire

\* face frames analysed at any time
SpecFace == InitFace /\ [][NextFace]_vars

\* ------------------------------------------------------------------ any bpm

\* the documents played at a usual bpm, at bpm 0 and at a negative bpm
BpmTracks == {1, 8, 9}

\* the engine right after init(), loadTrack(t), setTempoModifier(m) and play() at
\* time 0
InitBpm ==
  /\ ctx = TRUE
  /\ graph = InitGraph
  /\ now = 0
  /\ nextNoteTime = now + playOffset
  /\ currentStep = 0
  /\ timerID = 1
  /\ isPlaying = TRUE
  /\ trackData \in BpmTracks
  /\ customBuffer = 0
  /\ isCustomMuted = FALSE
  /\ tempoModifier \in PassModifiers
  /\ bassDistortionActive = FALSE
  /\ onStep = FALSE
  /\ polls = { [id |-> 1, due |-> now + lookahead] }
  /\ stepTimers = << >>
  /\ voices = << >>
  /\ dispatched = << >>
  /\ params = InitParams
  /\ notified = << >>
  /\ decoding = 0
  /\ suspended = FALSE
  /\ resuming = 0
  /\ created = Cardinality(SharedNodes)
  /\ lastDecode = "none"
  /\ raised = FALSE
  /\ hung = FALSE
  /\ response = NoResponse
  /\ result = NoResponse
  /\ wasBlinking = FALSE
  /\ frames = << >>
  /\ session = FALSE
  /\ isConnected = FALSE
  /\ connecting = 0
  /\ sockets = 0
  /\ received = << >>
  /\ effects = << >>
  /\ responses = 0
  /\ liveRaised = FALSE
  /\ volume = 0
  /\ recording = FALSE
  /\ calls = 0
  /\ lastOp = [name |-> "play", arg |-> 0, nnt |-> 0, ndisp |-> 0, playing |-> FALSE]

NextBpm == TickPass \/ PollFire

\* the scheduler left to run on such a document
SpecBpm == InitBpm /\ [][NextBpm]_vars

\* ---------------------------------------------------------------------------
\* LiveSessionService (services/liveSession.ts)
\* ---------------------------------------------------------------------------

\* connections the service opens in a run
MaxSockets == 2

\* messages the live service delivers in a run
MaxMessages == 3

\* a function call of a tool-call message: triggerEffect with an effect of the
\* declared enum (the declaration requires the argument), a call of another name
FunctionCalls ==
  { [name |-> "triggerEffect", effect |-> "glitch"],
    [name |-> "triggerEffect", effect |-> "laser"],
    [name |-> "other", effect |-> ""] }

\* message.toolCall.functionCalls of a message: no tool call, one call, two calls
ToolCalls ==
  {<< >>} \cup {<<fc>> : fc \in FunctionCalls}
          \cup {<<fc, [name |-> "triggerEffect", effect |-> "glitch"]>> :
                  fc \in FunctionCalls}

\* handleMessage(message): the loop over the function calls; st is [effects,
\* responses, raised]. this.session.sendToolResponse on a null session is a TypeError
\* that leaves the loop
RECURSIVE handleMessage(_, _, _)
handleMessage(calls_, has, st) ==
  IF calls_ = << >> \/ st.raised
    THEN st
    ELSE LET fc == Head(calls_)
             called == [st EXCEPT !.effects =
                          IF fc.effect # "" THEN Append(@, fc.effect) ELSE @]
             sent == IF has
                       THEN [called EXCEPT !.responses = @ + 1]
                       ELSE [called EXCEPT !.raised = TRUE]
         IN  handleMessage(Tail(calls_), has,
                           IF fc.name = "triggerEffect" THEN sent ELSE st)

\* what the live session leaves alone
LiveFrame ==
  UNCHANGED <<engine, now, polls, stepTimers, voices, dispatched, params, notified,
              decoding, device, hung, lastDecode, raised, service, overlay, output,
              calls, lastOp>>

\* connect(): returns at once when connected, else asks for a connection
Connect ==
  /\ ~isConnected
  /\ connecting + sockets < MaxSockets
  /\ connecting' = connecting + 1
  /\ UNCHANGED <<session, isConnected, sockets, received, effects, responses,
                 liveRaised>>
  /\ LiveFrame

\* the connection opens: onopen, then connect() resumes and stores the session
Opened ==
  /\ connecting > 0
  /\ connecting' = connecting - 1
  /\ sockets' = sockets + 1
  /\ isConnected' = TRUE
  /\ session' = TRUE
  /\ UNCHANGED <<received, effects, responses, liveRaised>>
  /\ LiveFrame

\* ai.live.connect rejects: connect() logs and rethrows
ConnectFailed ==
  /\ connecting > 0
  /\ connecting' = connecting - 1
  /\ UNCHANGED <<session, isConnected, sockets, received, effects, responses,
                 liveRaised>>
  /\ LiveFrame

\* onclose: the service closes a connection
Closed ==
  /\ sockets > 0
  /\ sockets' = sockets - 1
  /\ isConnected' = FALSE
  /\ UNCHANGED <<session, connecting, received, effects, responses, liveRaised>>
  /\ LiveFrame

\* disconnect(): resets the state; the connection is not closed
Disconnect ==
  /\ session
  /\ isConnected' = FALSE
  /\ session' = FALSE
  /\ UNCHANGED <<connecting, sockets, received, effects, responses, liveRaised>>
  /\ LiveFrame

\* onmessage: an open connection delivers a message
Message(functionCalls) ==
  /\ sockets > 0
  /\ Len(received) < MaxMessages
  /\ LET st == handleMessage(functionCalls, session,
                             [effects |-> effects, responses |-> responses,
                              raised |-> FALSE])
     IN  /\ effects' = st.effects
         /\ responses' = st.responses
         /\ liveRaised' = (liveRaised \/ st.raised)
  /\ received' = Append(received, [calls |-> functionCalls, session |-> session])
  /\ UNCHANGED <<session, isConnected, connecting, sockets>>
  /\ LiveFrame

NextToolCalls ==
  \/ Connect
  \/ Opened
  \/ ConnectFailed
  \/ Closed
  \/ Disconnect
  \/ \E functionCalls \in ToolCalls : Message(functionCalls)

SpecToolCalls == Init /\ [][NextToolCalls]_vars

\* ------------------------------------------------------------------ before init()

\* the levels setVolume is called with (thousandths)
VolumeInputs == {500, 1000}

\* the public operations called on an engine whose init() has not been called
NextPre ==
  \/ Play
  \/ Stop
  \/ \E t \in TrackIds : LoadTrack(t)
  \/ \E l \in VolumeInputs : SetVolume(l)
  \/ \E x \in TempoInputs : SetTempoModifier(x)
  \/ \E a \in {0, 1} : SetBassDistortion(a)
  \/ \E m \in {0, 1} : MuteCustomTrack(m)
  \/ \E n \in DOMAIN FxNames : TriggerGestureFX(n)
  \/ TriggerCowbell
  \/ StartRecording

\* a new engine used without init()
SpecPre == Init /\ [][NextPre]_vars

\* ------------------------------------------------------------------ construction

NextInit ==
  \/ EngineInit
  \/ Resumed
  \/ LoadCustomSample
  \/ \E ok \in BOOLEAN : DecodeDone(ok)
  \/ \E n \in DOMAIN FxNames : TriggerGestureFX(n)
  \/ TickFx

\* a new engine on which init() and loadCustomSample() are called at any time,
\* also while an earlier init() awaits the resume of the device
SpecInit == Init /\ [][NextInit]_vars

\* ------------------------------------------------------------------ sample loads

\* the engine right after init(), loadTrack(t), setTempoModifier(2.0) and play()
\* at time 0, with or without a first sample loaded before
InitDecode ==
  /\ ctx = TRUE
  /\ graph = InitGraph
  /\ now = 0
  /\ nextNoteTime = now + playOffset
  /\ currentStep = 0
  /\ timerID = 1
  /\ isPlaying = TRUE
  /\ trackData \in TrackIds
  /\ customBuffer \in {0, 1}
  /\ isCustomMuted = FALSE
  /\ tempoModifier = 200
  /\ bassDistortionActive = FALSE
  /\ onStep = FALSE
  /\ polls = { [id |-> 1, due |-> now + lookahead] }
  /\ stepTimers = << >>
  /\ voices = << >>
  /\ dispatched = << >>
  /\ params = InitParams
  /\ notified = << >>
  /\ decoding = 0
  /\ suspended = FALSE
  /\ resuming = 0
  /\ created = Cardinality(SharedNodes)
  /\ lastDecode = IF customBuffer = 0 THEN "none" ELSE "ok"
  /\ raised = FALSE
  /\ hung = FALSE
  /\ response = NoResponse
  /\ result = NoResponse
  /\ wasBlinking = FALSE
  /\ frames = << >>
  /\ session = FALSE
  /\ isConnected = FALSE
  /\ connecting = 0
  /\ sockets = 0
  /\ received = << >>
  /\ effects = << >>
  /\ responses = 0
  /\ liveRaised = FALSE
  /\ volume = 0
  /\ recording = FALSE
  /\ calls = 0
  /\ lastOp = [name |-> "play", arg |-> 0, nnt |-> 0, ndisp |-> 0, playing |-> FALSE]

NextDecode ==
  \/ TickLive
  \/ PollFire
  \/ LoadCustomSample
  \/ \E ok \in BOOLEAN : DecodeDone(ok)

\* a playing engine with samples loaded under it, their decoding failing or not
SpecDecode == InitDecode /\ [][NextDecode]_vars

\* ------------------------------------------------------------------ malformed documents

\* the documents with absent or short sequences
MalformedTracks == {4, 5, 6}

\* the engine right after init(), a loadCustomSample, loadTrack(t) of a malformed
\* document, setTempoModifier(m) and play() at time 0
InitMalformed ==
  /\ ctx = TRUE
  /\ graph = InitGraph
  /\ now = 0
  /\ nextNoteTime = now + playOffset
  /\ currentStep = 0
  /\ timerID = 1
  /\ isPlaying = TRUE
  /\ trackData \in MalformedTracks
  /\ customBuffer = 1
  /\ isCustomMuted = FALSE
  /\ tempoModifier \in PassModifiers
  /\ bassDistortionActive = FALSE
  /\ onStep = FALSE
  /\ polls = { [id |-> 1, due |-> now + lookahead] }
  /\ stepTimers = << >>
  /\ voices = << >>
  /\ dispatched = << >>
  /\ params = InitParams
  /\ notified = << >>
  /\ decoding = 0
  /\ suspended = FALSE
  /\ resuming = 0
  /\ created = Cardinality(SharedNodes)
  /\ lastDecode = "ok"
  /\ raised = FALSE
  /\ hung = FALSE
  /\ response = NoResponse
  /\ result = NoResponse
  /\ wasBlinking = FALSE
  /\ frames = << >>
  /\ session = FALSE
  /\ isConnected = FALSE
  /\ connecting = 0
  /\ sockets = 0
  /\ received = << >>
  /\ effects = << >>
  /\ responses = 0
  /\ liveRaised = FALSE
  /\ volume = 0
  /\ recording = FALSE
  /\ calls = 0
  /\ lastOp = [name |-> "play", arg |-> 0, nnt |-> 0, ndisp |-> 0, playing |-> FALSE]

NextMalformed == TickPass \/ PollFire

\* the scheduler left to run over a malformed document
SpecMalformed == InitMalformed /\ [][NextMalformed]_vars

\* ------------------------------------------------------------------ analysis

\* the length of a sequence the document does not have
Absent == -1

\* the lengths the generative service gives a sequence
Lengths == {Absent, 15, 16, 17}

\* the documents the generative service produces, by the lengths of their sequences
Responses ==
  [kick : Lengths, hat : Lengths, bass : Lengths, lead : Lengths, sfx : Lengths,
   custom : Lengths, error : {FALSE}, none : {FALSE}]

\* analyzeImage, from JSON.parse on: data.sequences.kick.length throws on an absent
\* kick (rethrown by the catch); a kick of another length is replaced by 16 silent
\* slots, an absent sfx or custom likewise; the document is returned
analyzeImage(data) ==
  IF data.kick = Absent
    THEN [data EXCEPT !.error = TRUE]
    ELSE [data EXCEPT !.kick = IF @ # NumSteps THEN NumSteps ELSE @,
                      !.sfx = IF @ = Absent THEN NumSteps ELSE @,
                      !.custom = IF @ = Absent THEN NumSteps ELSE @]

\* App.onScanComplete: the analysis returns (or throws)
AnalyzeImage ==
  /\ result.none
  /\ result' = analyzeImage(response)
  /\ UNCHANGED <<engine, now, polls, stepTimers, voices, dispatched, params, notified,
                 decoding, device, hung, lastDecode, raised, response, overlay, live, output, calls,
                 lastOp>>

\* the engine right after init(), with the service's document at hand
InitAnalyze ==
  /\ ctx = TRUE
  /\ graph = InitGraph
  /\ now = 0
  /\ nextNoteTime = 0
  /\ currentStep = 0
  /\ timerID = 0
  /\ isPlaying = FALSE
  /\ trackData = NoTrack
  /\ customBuffer = 0
  /\ isCustomMuted = FALSE
  /\ tempoModifier = 100
  /\ bassDistortionActive = FALSE
  /\ onStep = FALSE
  /\ polls = {}
  /\ stepTimers = << >>
  /\ voices = << >>
  /\ dispatched = << >>
  /\ params = InitParams
  /\ notified = << >>
  /\ decoding = 0
  /\ suspended = FALSE
  /\ resuming = 0
  /\ created = Cardinality(SharedNodes)
  /\ lastDecode = "none"
  /\ raised = FALSE
  /\ hung = FALSE
  /\ response \in Responses
  /\ result = NoResponse
  /\ wasBlinking = FALSE
  /\ frames = << >>
  /\ session = FALSE
  /\ isConnected = FALSE
  /\ connecting = 0
  /\ sockets = 0
  /\ received = << >>
  /\ effects = << >>
  /\ responses = 0
  /\ liveRaised = FALSE
  /\ volume = 0
  /\ recording = FALSE
  /\ calls = 0
  /\ lastOp = [name |-> "init", arg |-> 0, nnt |-> 0, ndisp |-> 0, playing |-> FALSE]

NextAnalyze == AnalyzeImage

\* one analysis of an image
SpecAnalyze == InitAnalyze /\ [][NextAnalyze]_vars

\* ------------------------------------------------------------------ claims

\* this step is the control call `name`
Called(name) == calls' # calls /\ lastOp'.name = name

\* everything of the engine and the platform but the tempo modifier
AllButTempo ==
  <<ctx, graph, nextNoteTime, currentStep, timerID, isPlaying, trackData, customBuffer,
    isCustomMuted, bassDistortionActive, onStep, platform>>

\* C3: setTempoModifier(x) stores min(2.0, max(0.5, x)) and changes nothing else, so
\* an x above 2.0 gives the state setTempoModifier(2.0) gives, an x below 0.5 the
\* state setTempoModifier(0.5) gives, and a call with the stored value changes nothing
C3_TempoClampIdempotent ==
  [][Called("setTempoModifier") =>
       /\ tempoModifier' = (IF lastOp'.arg > 200 THEN 200
                            ELSE IF lastOp'.arg < 50 THEN 50 ELSE lastOp'.arg)
       /\ UNCHANGED AllButTempo
       /\ (lastOp'.arg = tempoModifier => tempoModifier' = tempoModifier)]_vars

C3_Witness ==
  /\ lastOp.name = "setTempoModifier"
  /\ lastOp.arg > 200
  /\ tempoModifier = 200

\* C4: loadTrack while the scheduler is running sets the step index to 0 and swaps
\* the track, leaves the next-trigger time, the playing flag and the pending poll
\* alone, and the next step dispatched is step 0 of the new track at the trigger
\* time that was due before the load
C4_LoadWhilePlaying ==
  /\ [](lastOp.name = "loadTrack" /\ lastOp.playing /\ Len(dispatched) > lastOp.ndisp =>
          /\ dispatched[lastOp.ndisp + 1].step = 0
          /\ dispatched[lastOp.ndisp + 1].track = lastOp.arg
          /\ dispatched[lastOp.ndisp + 1].time = lastOp.nnt)
  /\ [][Called("loadTrack") /\ isPlaying =>
          /\ currentStep' = 0
          /\ trackData' = lastOp'.arg
          /\ UNCHANGED <<nextNoteTime, isPlaying, polls, timerID, now>>]_vars

C4_Witness ==
  /\ lastOp.name = "loadTrack"
  /\ lastOp.playing
  /\ lastOp.ndisp > 0
  /\ dispatched[lastOp.ndisp].track # lastOp.arg
  /\ Len(dispatched) > lastOp.ndisp

\* C9: play() without a loaded track changes nothing: not the playing flag, not the
\* next-trigger time or the step index, it arms no poll and dispatches no step
C9_PlayWithoutTrackNoOp ==
  [][Called("play") /\ trackData = NoTrack => UNCHANGED <<engine, platform>>]_vars

C9_Witness ==
  /\ lastOp.name = "play"
  /\ ctx
  /\ trackData = NoTrack
  /\ now > 0

\* C10: stop() always leaves the engine stopped with its poll cancelled, and a stop()
\* of an engine that is not playing (stopped before, never started, not initialized)
\* changes nothing, so stop();stop() ends in the state of one stop()
C10_StopIdempotent ==
  [][Called("stop") =>
       /\ ~isPlaying'
       /\ \A p \in polls' : p.id # timerID'
       /\ (~isPlaying => UNCHANGED <<engine, platform>>)]_vars

C10_Witness ==
  /\ lastOp.name = "stop"
  /\ ~lastOp.playing
  /\ lastOp.ndisp > 0
  /\ currentStep > 0

\* the start times of the kick voices among voices lo..hi
KickTimes(lo, hi) == [j \in { k \in lo..hi : voices[k].kind = "kick" } |-> voices[j].time]

\* C1: dispatching step s at time t enqueues exactly one kick voice, timed at t, when
\* kick[s] is true and none when it is false; at bpm 120 and modifier 1.0 with the
\* kick on steps 0, 4, 8, 12 one pass from t0 schedules kicks exactly at t0,
\* t0 + 0.5s, t0 + 1.0s and t0 + 1.5s
C1_KickPerStep ==
  /\ \A i \in DOMAIN dispatched :
       LET d == dispatched[i]
           ks == KickTimes(d.lo, d.hi)
       IN  IF Tracks[d.track].kick[d.step + 1]
             THEN Cardinality(DOMAIN ks) = 1 /\ \A j \in DOMAIN ks : ks[j] = d.time
             ELSE DOMAIN ks = {}
  /\ (/\ Len(dispatched) >= 16
      /\ dispatched[1].step = 0
      /\ dispatched[1].track = 1
      /\ tempoModifier = 100) =>
       LET t0 == dispatched[1].time
           ks == KickTimes(1, dispatched[16].hi)
       IN  /\ Cardinality(DOMAIN ks) = 4
           /\ { ks[j] : j \in DOMAIN ks } = {t0, t0 + Ms(500), t0 + Ms(1000), t0 + Ms(1500)}

C1_Witness ==
  /\ Len(dispatched) >= 16
  /\ dispatched[1].step = 0
  /\ dispatched[1].track = 1
  /\ Tracks[1].bpm = 120
  /\ tempoModifier = 100

\* the step index and trigger time before advance i: a logged dispatch, or the
\* current position after the last one
Position(i) ==
  IF i <= Len(dispatched)
    THEN [step |-> dispatched[i].step, time |-> dispatched[i].time]
    ELSE [step |-> currentStep, time |-> nextNoteTime]

\* C2: with bpm and tempo modifier constant, every advance adds
\* 0.25 * 60 / (bpm * tempoModifier) seconds and increments the step index modulo 16,
\* and 16 advances in a row return the index to where it was and add exactly 16
\* times that
C2_StepPeriodicity ==
  LET bpm == Tracks[trackData].bpm
  IN  /\ \A i \in 1..Len(dispatched) :
           /\ Position(i + 1).step = (Position(i).step + 1) % 16
           /\ (Position(i + 1).time - Position(i).time) * bpm * tempoModifier
                = Ms(15000) * 100
      /\ \A i \in 1..(Len(dispatched) - 15) :
           /\ Position(i + 16).step = Position(i).step
           /\ (Position(i + 16).time - Position(i).time) * bpm * tempoModifier
                = 16 * Ms(15000) * 100

C2_Witness ==
  /\ Len(dispatched) >= 16
  /\ dispatched[1].step = 5
  /\ currentStep = 5
  /\ tempoModifier = 200

\* the custom-sample voices among voices lo..hi
CustomIn(lo, hi) == { k \in lo..hi : voices[k].kind = "custom" }

\* C5: a step dispatched while the custom track is muted enqueues no custom-sample
\* voice, whatever custom[s] and the loaded sample; a step dispatched unmuted with
\* custom[s] true and a sample loaded enqueues exactly one, playing that sample;
\* muteCustomTrack sets the flag only and never touches the loaded buffer, so after
\* an unmute the voice fires again from the buffer loaded before
C5_MuteSuppressesCustom ==
  /\ [](\A i \in DOMAIN dispatched :
          LET d == dispatched[i]
              cs == CustomIn(d.lo, d.hi)
          IN  /\ d.muted => cs = {}
              /\ (~d.muted /\ d.buffer # 0 /\ Tracks[d.track].custom[d.step + 1]) =>
                   /\ Cardinality(cs) = 1
                   /\ \A k \in cs : voices[k].buffer = d.buffer /\ voices[k].time = d.time)
  /\ [][Called("muteCustomTrack") =>
          /\ isCustomMuted' = (lastOp'.arg = 1)
          /\ customBuffer' = customBuffer
          /\ voices' = voices]_vars

\* a step with custom[s] true was silenced by the mute, and after the unmute a later
\* step fired the sample that was loaded all along
C5_Witness ==
  /\ lastOp.name = "muteCustomTrack"
  /\ lastOp.arg = 0
  /\ decoding = 0
  /\ \E i, j \in DOMAIN dispatched :
       /\ i <= lastOp.ndisp
       /\ j > lastOp.ndisp
       /\ dispatched[i].muted
       /\ dispatched[i].buffer # 0
       /\ Tracks[dispatched[i].track].custom[dispatched[i].step + 1]
       /\ ~dispatched[j].muted
       /\ \E k \in CustomIn(dispatched[j].lo, dispatched[j].hi) :
            voices[k].buffer = dispatched[i].buffer

\* the indices of the bass voices, and the dispatch each voice belongs to
BassIndices == { k \in DOMAIN voices : voices[k].kind = "bass" }

DispatchOf(k) ==
  CHOOSE i \in DOMAIN dispatched : dispatched[i].lo <= k /\ k <= dispatched[i].hi

\* two bass notes with no bass note between them
ConsecutiveBass(a, b) ==
  /\ a \in BassIndices
  /\ b \in BassIndices
  /\ a < b
  /\ \A k \in BassIndices : ~(a < k /\ k < b)

ThroughDistortion(v) ==
  <<"distGain", "distortionNode">> \in v.edges /\ <<"distortionNode", "outGain">> \in v.edges

\* C6: the chain of a bass voice is the one through the shared distortion stage when
\* the flag was set at its dispatch and the one without it when the flag was clear;
\* consecutive bass notes have equal chains when the flag was the same and different
\* chains when it differed; setBassDistortion changes no voice already dispatched
C6_BassChainByFlag ==
  /\ [](/\ \A k \in BassIndices :
             voices[k].edges =
               IF dispatched[DispatchOf(k)].dist
                 THEN { <<"osc", "filter">>, <<"filter", "distGain">>,
                        <<"distGain", "distortionNode">>, <<"distortionNode", "outGain">>,
                        <<"outGain", "masterGain">> }
                 ELSE { <<"osc", "filter">>, <<"filter", "gain">>, <<"gain", "masterGain">> }
        /\ \A a, b \in BassIndices :
             ConsecutiveBass(a, b) =>
               /\ (dispatched[DispatchOf(a)].dist = dispatched[DispatchOf(b)].dist) <=>
                    (voices[a].edges = voices[b].edges)
               /\ (dispatched[DispatchOf(a)].dist # dispatched[DispatchOf(b)].dist) =>
                    (ThroughDistortion(voices[a]) # ThroughDistortion(voices[b])))
  /\ [][Called("setBassDistortion") =>
          /\ bassDistortionActive' = (lastOp'.arg = 1)
          /\ voices' = voices
          /\ dispatched' = dispatched]_vars

\* three bass notes in a row: the flag toggled between the first two, unchanged
\* between the last two
C6_Witness ==
  \E a, b, c \in BassIndices :
    /\ ConsecutiveBass(a, b)
    /\ ConsecutiveBass(b, c)
    /\ dispatched[DispatchOf(a)].dist # dispatched[DispatchOf(b)].dist
    /\ dispatched[DispatchOf(b)].dist = dispatched[DispatchOf(c)].dist
    /\ dispatched[DispatchOf(b)].dist

\* the events of a param at or after time t
PendingFrom(events, t) ==
  LET AtOrAfter(e) == e.time >= t IN SelectSeq(events, AtOrAfter)

\* C7: after triggerGestureFX(name) at time t the pending automation of the steered
\* param (its events at or after t) is exactly what this trigger scheduled: a
\* set-value at t of the value the param had reached, then the two ramps of the
\* effect; nothing an earlier trigger scheduled for t or later remains, and the other
\* params are untouched
C7_RetriggerReplaces ==
  [][Called("triggerGestureFX") /\ ctx =>
       LET name == FxNames[lastOp'.arg]
           p == FxParam(name)
           t == now
           reached == ValueAt(params[p], t)
       IN  /\ PendingFrom(params'[p].events, t) =
                << [type |-> "set", value |-> reached, time |-> t] >> \o
                CASE name = "reverb" ->
                       << [type |-> "linear", value |-> 1000, time |-> t + Ms(100)],
                          [type |-> "exp", value |-> 10, time |-> t + Ms(2000)] >>
                  [] name = "filter" ->
                       << [type |-> "exp", value |-> 100, time |-> t + Ms(200)],
                          [type |-> "exp", value |-> 22000, time |-> t + Ms(1500)] >>
                  [] name = "distortion" ->
                       << [type |-> "linear", value |-> 800, time |-> t + Ms(100)],
                          [type |-> "linear", value |-> 0, time |-> t + Ms(500)] >>
                  [] name = "delay" ->
                       << [type |-> "linear", value |-> 1000, time |-> t + Ms(100)],
                          [type |-> "linear", value |-> 0, time |-> t + Ms(400)] >>
           /\ \A q \in ParamNames \ {p} : params'[q] = params[q]]_vars

\* the reverb was triggered again while its decay was still running
C7_Witness ==
  /\ lastOp.name = "triggerGestureFX"
  /\ FxNames[lastOp.arg] = "reverb"
  /\ LET ev == params["reverbSend.gain"].events
     IN  \E k \in DOMAIN ev :
           /\ k > 1
           /\ ev[k].type = "set"
           /\ ev[k].time = now
           /\ ev[k].time - ev[1].time < Ms(2000)
           /\ ev[k].time - ev[1].time > Ms(100)
           /\ ev[k].value > 10
           /\ ev[k].value < 1000

\* the times, 50ms apart, from 0 to half a second past the end of the session, and
\* 250ms apart from there to two seconds past it
FxTimes ==
  { k * Ms(50) : k \in 0..(FxClock + 10) } \cup
  { FxClock * Ms(50) + k * Ms(250) : k \in 2..8 }

InRange(p, v) ==
  IF p = "masterFilter.frequency" THEN 100 <= v /\ v <= 22000 ELSE 0 <= v /\ v <= 1000

\* C8: whatever gestures are triggered and whenever, each effect-send gain stays
\* within [0, 1] and the master filter frequency within [100, 22000] Hz at all times
C8_ParamsInRange ==
  \A p \in ParamNames :
    LET ev == params[p].events
    IN  /\ InRange(p, params[p].base)
        /\ ev # << >> =>
             \A t \in { u \in FxTimes : ev[1].time <= u /\ u <= ev[Len(ev)].time } :
               InRange(p, ValueAt(params[p], t))

\* the filter was triggered again in the middle of its sweep
C8_Witness ==
  /\ lastOp.name = "triggerGestureFX"
  /\ now > 0
  /\ \E k \in DOMAIN params["masterFilter.frequency"].events :
       LET e == params["masterFilter.frequency"].events[k]
       IN  k > 1 /\ e.type = "set" /\ e.value > 100 /\ e.value < 22000

\* seq is an initial part of seq2
IsPrefix(seq, seq2) ==
  Len(seq) <= Len(seq2) /\ \A i \in DOMAIN seq : seq2[i] = seq[i]

\* stop() cancels the poll it holds, clears the playing flag and leaves the step
\* index, the next-trigger time, the tempo modifier, the track and everything
\* scheduled alone; nothing is dispatched while the engine is stopped, the flag is
\* set by play() and cleared by stop() only, and no voice is ever retracted
StopCancelsOnlyThePoll ==
  /\ [][Called("stop") =>
          /\ ~isPlaying'
          /\ polls' = { p \in polls : p.id # timerID }
          /\ UNCHANGED <<currentStep, nextNoteTime, tempoModifier, trackData, voices,
                         dispatched, stepTimers, graph, now>>
          /\ \A i \in DOMAIN dispatched :
               dispatched[i].time < now + scheduleAheadTime]_vars
  /\ [][~isPlaying /\ ~Called("play") =>
          ~isPlaying' /\ dispatched' = dispatched /\ voices' = voices]_vars
  /\ [][isPlaying /\ ~isPlaying' => Called("stop")]_vars
  /\ [][IsPrefix(voices, voices') /\ IsPrefix(dispatched, dispatched')]_vars

\* the second hit of the dog's bark, which starts 180ms after its step
SecondBark(d, v) ==
  Tracks[d.track].soundEffect = "dog" /\ v.kind = "sfx" /\ v.time = d.time + Ms(180)

\* C11 as stated: stop() cancels only the pending poll, no step is dispatched from
\* then to the next play(), the voices scheduled before the stop stay scheduled and
\* each of them has a trigger time less than 100ms after the moment of the stop;
\* step index, next-trigger time, tempo modifier and track are unchanged
C11_StopTailWithinWindow ==
  /\ StopCancelsOnlyThePoll
  /\ [][Called("stop") =>
          \A i \in DOMAIN voices : voices[i].time < now + scheduleAheadTime]_vars

\* C11, amended: as stated, but the bound of 100ms after the stop holds for the
\* trigger time of every dispatched step, and every voice starts at the time of its
\* step except the second hit of the dog's bark, which starts 180ms later (less
\* than 280ms after the stop)
C11_StopTailOfSteps ==
  /\ StopCancelsOnlyThePoll
  /\ [][Called("stop") =>
          \A i \in DOMAIN dispatched :
            \A k \in dispatched[i].lo..dispatched[i].hi :
              \/ voices[k].time = dispatched[i].time
              \/ SecondBark(dispatched[i], voices[k])]_vars

C11_Witness ==
  /\ lastOp.name = "stop"
  /\ lastOp.playing
  /\ Len(dispatched) = lastOp.ndisp
  /\ nextNoteTime < now
  /\ \E k \in DOMAIN voices : SecondBark(dispatched[1], voices[k])

\* this step is a call of one of the operations ops
CalledOneOf(ops) == calls' # calls /\ lastOp'.name \in ops

\* C12 as stated: without a device context play, stop, loadTrack, setVolume,
\* setTempoModifier, setBassDistortion, muteCustomTrack, triggerGestureFX,
\* triggerCowbell and startRecording each leave the whole engine state unchanged
\* and schedule nothing
C12_AllNoOpsBeforeInit ==
  [][~ctx /\ CalledOneOf({"play", "stop", "loadTrack", "setVolume", "setTempoModifier",
                          "setBassDistortion", "muteCustomTrack", "triggerGestureFX",
                          "triggerCowbell", "startRecording"})
       => UNCHANGED <<engine, platform>>]_vars

\* C12, amended: without a device context no operation schedules anything or
\* creates the context; play, stop, setVolume, triggerGestureFX, triggerCowbell
\* and startRecording leave the whole engine state unchanged, while loadTrack,
\* setTempoModifier, setBassDistortion and muteCustomTrack store their argument
\* (the track with the step index reset, the clamped modifier, the flag) and
\* change nothing else
C12_DeviceOpsNoOpBeforeInit ==
  /\ [][~ctx /\ CalledOneOf({"play", "stop", "setVolume", "triggerGestureFX",
                             "triggerCowbell", "startRecording"})
          => UNCHANGED <<engine, platform>>]_vars
  /\ [][~ctx /\ Called("loadTrack") =>
          /\ trackData' = lastOp'.arg
          /\ currentStep' = 0
          /\ UNCHANGED <<ctx, graph, nextNoteTime, timerID, isPlaying, customBuffer,
                         isCustomMuted, tempoModifier, bassDistortionActive, onStep,
                         platform>>]_vars
  /\ [][~ctx /\ Called("setTempoModifier") =>
          /\ tempoModifier' = ClampTempo(lastOp'.arg)
          /\ UNCHANGED AllButTempo]_vars
  /\ [][~ctx /\ Called("setBassDistortion") =>
          /\ bassDistortionActive' = (lastOp'.arg = 1)
          /\ UNCHANGED <<ctx, graph, nextNoteTime, currentStep, timerID, isPlaying,
                         trackData, customBuffer, isCustomMuted, tempoModifier, onStep,
                         platform>>]_vars
  /\ [][~ctx /\ Called("muteCustomTrack") =>
          /\ isCustomMuted' = (lastOp'.arg = 1)
          /\ UNCHANGED <<ctx, graph, nextNoteTime, currentStep, timerID, isPlaying,
                         trackData, customBuffer, tempoModifier, bassDistortionActive,
                         onStep, platform>>]_vars

C12_Witness ==
  /\ ~ctx
  /\ lastOp.name = "startRecording"
  /\ trackData # NoTrack
  /\ tempoModifier = TempoMax
  /\ isCustomMuted
  /\ bassDistortionActive
  /\ ~isPlaying /\ ~recording /\ volume = 0 /\ voices = << >> /\ polls = {}

\* C13: the shared graph is built exactly once, by the first init() (called
\* directly or by loadCustomSample): a later init(), also one issued while an
\* earlier one awaits the resume of the device, creates no node, adds no
\* connection and resets no parameter, and the nodes are never replaced
C13_GraphBuiltOnce ==
  /\ [](IF ctx THEN graph = InitGraph /\ created = Cardinality(SharedNodes)
               ELSE graph = {} /\ created = 0)
  /\ [][created' # created =>
          /\ ~ctx /\ ctx'
          /\ CalledOneOf({"init", "loadCustomSample"})]_vars
  /\ [][ctx /\ CalledOneOf({"init", "loadCustomSample"}) =>
          UNCHANGED <<ctx, graph, created, params>>]_vars

C13_Witness ==
  /\ lastOp.name = "init"
  /\ suspended
  /\ resuming >= 2
  /\ created = Cardinality(SharedNodes)
  /\ params # InitParams

\* the steps dispatched while the decode settled last was a failed one
AfterFailedDecode == { i \in DOMAIN dispatched : dispatched[i].decode = "failed" }

\* this step is the continuation of loadCustomSample after a rejected decode
DecodeFails == decoding' < decoding /\ lastDecode' = "failed"

\* C14 as stated: a failed decode does not propagate, and from then on, until a
\* later load succeeds, no dispatched step enqueues a custom-sample voice
C14_FailedDecodeSilences ==
  /\ [](\A i \in AfterFailedDecode : CustomIn(dispatched[i].lo, dispatched[i].hi) = {})
  /\ [][DecodeFails => raised' = raised]_vars

\* C14, amended: a failed decode does not propagate and changes nothing: the
\* buffer and the mute flag stay as they were.  From then on, until a later load
\* succeeds, no step enqueues a custom-sample voice when no sample had been decoded
\* before, and a sample decoded before keeps playing as it did (on the unmuted
\* steps where custom[s] is true)
C14_FailedDecodeKeepsSample ==
  /\ [][DecodeFails =>
          UNCHANGED <<engine, now, polls, stepTimers, voices, dispatched, params,
                      notified, device, hung, raised, service, overlay, live, output, calls, lastOp>>]_vars
  /\ [](\A i \in AfterFailedDecode :
          LET d == dispatched[i]
              cs == CustomIn(d.lo, d.hi)
          IN  /\ d.buffer = 0 => cs = {}
              /\ d.buffer # 0 =>
                   /\ cs # {} <=> (~d.muted /\ Slot(Tracks[d.track].custom, d.step, FALSE))
                   /\ \A k \in cs : voices[k].buffer = d.buffer)

\* both cases have happened in one session: a first load failed and the steps after
\* it stayed silent, then a load succeeded, a further one failed and the sample of
\* the successful one kept playing
C14_Witness ==
  /\ \E i \in AfterFailedDecode :
       /\ dispatched[i].buffer = 0
       /\ Slot(Tracks[dispatched[i].track].custom, dispatched[i].step, FALSE)
  /\ \E i \in AfterFailedDecode :
       /\ dispatched[i].buffer # 0
       /\ CustomIn(dispatched[i].lo, dispatched[i].hi) # {}

\* the voices of instrument kind among voices lo..hi
KindIn(kind, lo, hi) == { k \in lo..hi : voices[k].kind = kind }

\* slot step of sequence name is missing from the document: the sequence is absent
\* or too short
Missing(track, name, step) == name \notin track.present \/ step + 1 > Len(track[name])

\* C15: a malformed track never raises on the scheduling path: with any of the
\* sequences absent or shorter than 16, every step is dispatched without error,
\* fires no voice of an instrument whose slot is missing, and fires the kick and the
\* hat wherever their slots are present and true
C15_MalformedNeverRaises ==
  /\ ~raised
  /\ \A i \in DOMAIN dispatched :
       LET d == dispatched[i]
           track == Tracks[d.track]
       IN  /\ \A name \in SeqNames :
                Missing(track, name, d.step) => KindIn(name, d.lo, d.hi) = {}
           /\ \A name \in {"kick", "hat"} :
                (~Missing(track, name, d.step) /\ track[name][d.step + 1])
                  => Cardinality(KindIn(name, d.lo, d.hi)) = 1

\* C16: every document analyzeImage returns has exactly 16 slots in each of kick,
\* hat, bass, lead, sfx and custom, whatever lengths the service produced
C16_ReturnedSequencesHave16 ==
  (~result.none /\ ~result.error) => \A s \in SeqNames : result[s] = NumSteps

\* C17: setTempoModifier leaves the next-trigger time, the step index, the playing
\* flag, the pending poll and everything dispatched as they are; the step that is
\* due is dispatched at the time computed before the call, and every advance made
\* after the call adds the step duration of the new modifier
C17_TempoAffectsFutureOnly ==
  /\ [][Called("setTempoModifier") =>
          UNCHANGED <<nextNoteTime, currentStep, isPlaying, voices, dispatched, polls,
                      stepTimers, timerID>>]_vars
  /\ [](lastOp.name = "setTempoModifier" /\ lastOp.playing =>
          /\ Position(lastOp.ndisp + 1).time = lastOp.nnt
          /\ \A i \in (lastOp.ndisp + 1)..Len(dispatched) :
               (Position(i + 1).time - Position(i).time)
                 * Tracks[trackData].bpm * tempoModifier = Ms(15000) * 100)

\* the modifier was changed between two dispatches: the step due was dispatched at
\* the time fixed before, one old step duration after its predecessor, and the next
\* one is due one new step duration later
C17_Witness ==
  /\ lastOp.name = "setTempoModifier"
  /\ lastOp.playing
  /\ lastOp.ndisp >= 1
  /\ Len(dispatched) = lastOp.ndisp + 1
  /\ dispatched[lastOp.ndisp + 1].time = lastOp.nnt
  /\ nextNoteTime - lastOp.nnt # lastOp.nnt - dispatched[lastOp.ndisp].time

\* C18: in every state of a session of init, loadTrack, play, stop, poll ticks and
\* setTempoModifier calls the step index is an integer in 0..15 and the tempo
\* modifier lies in [0.5, 2.0]
C18_SessionInvariant ==
  /\ currentStep \in 0..15
  /\ tempoModifier >= 50
  /\ tempoModifier <= 200

\* the scheduler has dispatched step 15 and wrapped to step 0, and setTempoModifier
\* was then called with a value above the range
C18_Witness ==
  /\ Len(dispatched) > 0
  /\ dispatched[Len(dispatched)].step = NumSteps - 1
  /\ currentStep = 0
  /\ lastOp.name = "setTempoModifier"
  /\ lastOp.arg = 300
  /\ lastOp.ndisp = Len(dispatched)
  /\ tempoModifier = 200

\* C19: a poll tick taken at device time now while playing dispatches, in order
\* from the step that is due, every step whose time is below now + 100ms, each
\* logged with the time and index it had before the advance; when the tick ends
\* the next-trigger time is at least now + 100ms, one step duration after the last
\* dispatch, and the fired poll is replaced by exactly one poll due 25ms later,
\* whatever the bpm and the tempo modifier
C19_LookaheadDrain ==
  [][(now' = now /\ isPlaying) =>
       LET n == Len(dispatched)
           m == Len(dispatched')
       IN  /\ IsPrefix(dispatched, dispatched')
           /\ (nextNoteTime < now + Ms(100)) => m > n
           /\ m > n => /\ dispatched'[n + 1].step = currentStep
                        /\ dispatched'[n + 1].time = nextNoteTime
                        /\ (nextNoteTime' - dispatched'[m].time)
                             * Tracks[trackData].bpm * tempoModifier = Ms(15000) * 100
           /\ m = n => nextNoteTime' = nextNoteTime
           /\ \A i \in (n + 1)..m : dispatched'[i].time < now + Ms(100)
           /\ \A i \in (n + 1)..(m - 1) :
                /\ dispatched'[i + 1].step = (dispatched'[i].step + 1) % 16
                /\ dispatched'[i + 1].time > dispatched'[i].time
                /\ dispatched'[i + 1].lo = dispatched'[i].hi + 1
           /\ currentStep' = (currentStep + (m - n)) % 16
           /\ nextNoteTime' >= now + Ms(100)
           /\ Cardinality(polls \ polls') = 1
           /\ polls' \ polls = { [id |-> timerID', due |-> now + Ms(25)] }]_vars

\* a tick has just ended: its poll is pending 25ms ahead, the last of the steps it
\* found due was dispatched below now + 100ms and the next one lies beyond
C19_Witness ==
  /\ isPlaying
  /\ Len(dispatched) >= 2
  /\ dispatched[Len(dispatched)].time < now + Ms(100)
  /\ dispatched[Len(dispatched)].time >= now + Ms(75)
  /\ nextNoteTime >= now + Ms(100)
  /\ polls = { [id |-> timerID, due |-> now + Ms(25)] }

\* C20: every step the scheduler dispatches has a trigger time that is not earlier
\* than the device time at the moment of dispatch and is below that time plus
\* 100ms, for every interleaving of play, stop, loadTrack, setTempoModifier and
\* poll ticks
C20_OnlyFutureEvents ==
  [][\A i \in (Len(dispatched) + 1)..Len(dispatched') :
       /\ dispatched'[i].time >= now
       /\ dispatched'[i].time < now + Ms(100)]_vars

\* C21: at every dispatched step a bass (resp. lead) voice fires exactly when the
\* slot holds a name of the note table, with the table's frequency; a null or
\* unresolvable name is skipped without error; the ambience one-shot fires exactly
\* when the sfx slot is true and soundEffect is not "none"; no instrument fires
\* more than once in a step (the two hits of the bark are one one-shot)
C21_PitchedAndAmbienceDispatch ==
  /\ ~raised
  /\ \A i \in DOMAIN dispatched :
       LET d == dispatched[i]
           track == Tracks[d.track]
           shots == KindIn("sfx", d.lo, d.hi)
       IN  /\ \A name \in {"bass", "lead"} :
                LET note == track[name][d.step + 1]
                    fired == KindIn(name, d.lo, d.hi)
                IN  IF note \in DOMAIN NOTE_FREQS
                      THEN /\ Cardinality(fired) = 1
                           /\ \A k \in fired : /\ voices[k].freq = NOTE_FREQS[note]
                                                 /\ voices[k].time = d.time
                      ELSE fired = {}
           /\ (shots # {}) <=> (track.sfx[d.step + 1] /\ track.soundEffect # "none")
           /\ Cardinality(shots) <= IF track.soundEffect = "dog" THEN 2 ELSE 1
           /\ \A k \in shots : voices[k].time \in {d.time, d.time + Ms(180)}
           /\ \A name \in {"kick", "hat", "custom"} :
                Cardinality(KindIn(name, d.lo, d.hi)) <= 1

\* the step indices of a log of records
StepsOf(log) == [i \in DOMAIN log |-> log[i].step]

\* C22: every step dispatched while an observer is registered gets one timeout,
\* armed max(0, trigger time - now) ahead; the timeouts run in the order of
\* dispatch, each calling the observer once with its step index and not before
\* the step's trigger time; steps dispatched with no observer arm no timeout
C22_ObserverDelivery ==
  /\ [](onStep => StepsOf(notified) \o StepsOf(stepTimers) = StepsOf(dispatched))
  /\ [](~onStep => notified = << >> /\ stepTimers = << >>)
  /\ [](\A i \in DOMAIN notified :
          /\ ~notified[i].null
          /\ notified[i].time = dispatched[i].time
          /\ notified[i].at >= notified[i].time)
  /\ [][\A i \in (Len(dispatched) + 1)..Len(dispatched') :
          LET t == (stepTimers')[i - Len(notified)]
          IN  onStep => /\ t.time = dispatched'[i].time
                        /\ t.due = IF t.time > now THEN t.time ELSE now]_vars

\* the observer was called for step 0 and, later, for step 1, the second call
\* late; the timeout of a third step is pending
C22_Witness ==
  /\ onStep
  /\ Len(notified) >= 2
  /\ notified[1].step = 0
  /\ notified[2].step = 1
  /\ notified[2].at > notified[2].time
  /\ notified[2].at > notified[1].at
  /\ stepTimers # << >>

\* C26: an observer timeout that runs after onStep was set to null never calls a
\* null observer and raises no error
C26_ClearedObserverIsSafe ==
  \A i \in DOMAIN notified : ~notified[i].null

\* frame i of the camera session is a blink
BlinkAt(i) == frames[i].left + frames[i].right > 80

\* the frames at which a blink starts
BlinkStarts == { i \in DOMAIN frames : BlinkAt(i) /\ (i = 1 \/ ~BlinkAt(i - 1)) }

\* C23: over any sequence of face frames the cowbell is triggered once for each
\* frame that is a blink after a frame that was none, and never on a frame whose
\* predecessor was a blink; each trigger enqueues one cowbell voice starting now,
\* with no track loaded, with a track loaded and with the scheduler playing
C23_CowbellOnBlinkStart ==
  /\ [](Cardinality({ k \in DOMAIN voices : voices[k].kind = "cowbell" })
          = Cardinality(BlinkStarts))
  /\ [][Len(frames') = Len(frames) + 1 =>
          LET n == Len(frames')
              new == { k \in (Len(voices) + 1)..Len(voices') :
                         voices'[k].kind = "cowbell" }
          IN  /\ (n > 1 /\ BlinkAt(n - 1)) => new = {}
              /\ n \in BlinkStarts' => /\ Cardinality(new) = 1
                                        /\ \A k \in new : voices'[k].time = now
              /\ n \notin BlinkStarts' => new = {}]_vars

\* two blinks, the first lasting two frames, gave two cowbells while the scheduler
\* was playing and dispatching
C23_Witness ==
  /\ Len(frames) = 4
  /\ BlinkAt(1) /\ BlinkAt(2) /\ ~BlinkAt(3) /\ BlinkAt(4)
  /\ frames[1].right = 0
  /\ frames[2].right = 50
  /\ Cardinality({ k \in DOMAIN voices : voices[k].kind = "cowbell" }) = 2
  /\ isPlaying
  /\ dispatched # << >>

\* C24: no voice alters the shared graph: the connections leaving the nodes built
\* by init() are those init() made, whatever was triggered since, and every voice
\* connects only nodes of its own, its output ending at the master gain
C24_VoicesLeaveSharedGraph ==
  /\ ctx => graph = InitGraph
  /\ \A k \in DOMAIN voices :
       \A e \in voices[k].edges :
         /\ e[1] \notin SharedNodes
         /\ e[2] \in SharedNodes => e[2] = "masterGain"

\* C25: at most one scheduler poll is pending at any time, for every sequence of
\* play() and stop() calls, play() while running included, and stop() leaves no
\* poll pending that could run the drain loop after a later play()
C25_AtMostOnePoll ==
  /\ Cardinality(polls) <= 1
  /\ ~isPlaying => polls = {}

\* C27: every poll tick terminates, for any integer bpm (zero and negative
\* included) and any tempo modifier in [0.5, 2.0]: the drain loop of a tick ends
\* after finitely many steps and the poll is armed again
C27_EveryTickTerminates ==
  /\ ~hung
  /\ isPlaying => polls # {}

\* C28: the trigger times of successively dispatched steps are strictly
\* increasing over the whole life of the engine, across play, stop, repeated
\* play, loadTrack and setTempoModifier (bpm > 0, the device clock monotone)
C28_DispatchTimesIncrease ==
  \A i \in 1..(Len(dispatched) - 1) : dispatched[i + 1].time > dispatched[i].time

\* play() was called again after a step had been dispatched, and a step was
\* dispatched after that
C28_Witness ==
  /\ lastOp.name = "play"
  /\ lastOp.ndisp >= 1
  /\ Len(dispatched) > lastOp.ndisp
  /\ dispatched[lastOp.ndisp + 1].time < lastOp.nnt

\* C29: play() and stop() leave the step index as it is, so the first step
\* dispatched after stop() and play() is the one the scheduler had reached; the
\* index changes only by the scheduler's advance and by loadTrack, which sets it
\* to 0
C29_PlayKeepsStepIndex ==
  [][/\ (Called("play") \/ Called("stop")) => currentStep' = currentStep
     /\ Called("loadTrack") => currentStep' = 0
     /\ currentStep' # currentStep =>
          Called("loadTrack") \/ Len(dispatched') > Len(dispatched)
     /\ Len(dispatched') > Len(dispatched) =>
          dispatched'[Len(dispatched) + 1].step = currentStep]_vars

\* the engine was stopped after step 0, play() was called again and the next step
\* dispatched was step 1
C29_Witness ==
  /\ lastOp.name = "play"
  /\ ~lastOp.playing
  /\ lastOp.ndisp = 1
  /\ Len(dispatched) > 1
  /\ dispatched[1].step = 0
  /\ dispatched[2].step = 1

\* the triggerEffect calls of the messages received while a session existed
RECURSIVE TriggerCalls(_)
TriggerCalls(log) ==
  IF log = << >>
    THEN 0
    ELSE TriggerCalls(Tail(log))
         + (IF Head(log).session
              THEN Cardinality({i \in DOMAIN Head(log).calls :
                                  Head(log).calls[i].name = "triggerEffect"})
              ELSE 0)

\* C30: a tool-call message delivered after disconnect() is handled safely:
\* handleMessage never calls sendToolResponse on a null session, and every
\* triggerEffect call received while a session exists gets exactly one callback
\* invocation and exactly one tool response
C30_ToolCallsHandledSafely ==
  /\ ~liveRaised
  /\ Len(effects) = TriggerCalls(received)
  /\ responses = TriggerCalls(received)

====
